---- MODULE Spec2Model ----
(***************************************************************************)
(* Model of the virtual console: the capturing console instance (node and  *)
(* browser variants) and the context router that decides which instance a  *)
(* logging call reaches.                                                   *)
(*                                                                         *)
(* JavaScript runs one synchronous segment at a time: every action below   *)
(* is one handler or one synchronous segment run to completion.            *)
(***************************************************************************)
EXTENDS Integers, Sequences, FiniteSets, TLC

\* ------------------------------------------------------------------ bounds

\* Instance operations (method calls, freshLine, clear) per behaviour of SpecConsole.
MaxOps == 3
\* Router steps (a log or a set-active outside a call's first segment) per behaviour of Spec.
MaxSteps == 1

\* ---------------------------------------------------------------- universes

None == "none"

\* main.mjs picks the implementation by the host.
Platforms == {"node", "browser"}

\* defaultConsole plus two instances made by application code.
Instances == {"D", "A", "B"}

\* Intercepted methods: one of the stdout side, one of the stderr side, and error.
Methods == {"log", "warn", "error"}

\* Argument values: text values and Error objects; router tokens name their logger.
TextArg(n) == [kind |-> "text", v |-> n]
ErrorArg(n) == [kind |-> "error", v |-> n]
TokenArg(p) == [kind |-> "token", v |-> p]
TimerArg(c) == [kind |-> "timer", v |-> c]

\* Argument lists handed to instance methods in SpecConsole.
ArgLists == {<<TextArg(1)>>, <<ErrorArg(1)>>, <<ErrorArg(1), TextArg(1)>>}

\* Identifiers handed to freshLine.
FreshIds == {"id1", "id2"}

\* Paths of the router: 0 is the top-level script, c >= 1 the function of call c.
Calls == {1, 2}
Paths == {0} \cup Calls

\* No path is running: the event loop picks what runs next.
Idle == 0 - 1

VARIABLES
    platform,            \* which implementation main.mjs loaded
    \* ---- capturing console instances
    options,             \* options[i]: the merged configuration of instance i
    outputs,             \* outputs[i]: the plain-text buffer, one entry per appended chunk
    outputsHtml,         \* outputsHtml[i]: the HTML buffer, one entry per appended line
    loggedFreshLineId,   \* #loggedFreshLineId of instance i
    writing,             \* writing[i][side]: the virtual stream has a write in flight (node)
    buffered,            \* buffered[i][side]: chunks the virtual stream holds back (node)
    \* ---- the real console and the error interceptor
    baseCalls,           \* calls made on the base console: [m, a]
    sinkWrites,          \* chunks written to the base console's streams: [side, chunk]
    handled,             \* values handed to error_handler
    \* ---- history of the instance operations
    issued,              \* issued[i]: argument lists of the logging calls made on i, in call order
    nops,                \* operations performed so far (SpecConsole)
    lastCall,            \* the operation called last on an instance: [op, i, m, id, a]
    \* ---- context router
    currentAsyncConsole, \* the single cell of the browser router
    store,               \* store[p]: the AsyncLocalStorage store of path p (node)
    cur,                 \* the path running synchronously, or Idle (the event loop)
    pc,                  \* pc[c]: where run-scoped call c is
    inst,                \* inst[c]: the instance call c was made on
    previousConsole,     \* previousConsole[c]: the binding saved when c started
    caller,              \* caller[c]: the path that made call c
    outcome,             \* outcome[c]: how c's function ended (None, "ok" or an error)
    seen,                \* seen[c]: what the caller observed
    afterFinally,        \* afterFinally[c]: the binding right after c's restore step
    timer,               \* timer[c]: the delayed callback c's function scheduled
    rebound,             \* rebound[p]: path p called set-active
    lastSet,             \* the most recent set-active: [by, to] (by = Idle: none yet)
    nsteps,              \* router steps taken so far
    \* ---- the router functions a host installed (setGlobalConsoleReflect)
    reflect,             \* who supplied consoleReflect / consoleReflectSet / consoleReflectRun
    hostCell,            \* hostCell[h]: the binding host h's functions keep themselves
    hostCalls,           \* calls received by host functions: [f, h, v]
    lastHook,            \* the router operation performed last: [op, v, res]
    nhook,               \* router operations performed through the installed functions
    \* ---- resize listeners of virtual streams on one target stream (node)
    targetStream,                \* the target stream: [isTTY, hasOn, hasOff]
    vstream,             \* vstream[s]: "unborn", "alive", "collected" or "cleaned"
    sinkListeners,       \* the listenerInfo objects whose listener is registered on the sink
    listenerInfos,       \* listenerInfos[k]: the virtualStreams set of listenerInfo k
    mapEntry,            \* streamResizeListeners.get(targetStream): a listenerInfo, or 0
    made,                \* listenerInfo objects created so far
    notified,            \* the virtual streams that re-emitted the last resize
    \* ---- the formatters applied to one argument list
    fmtArgs,             \* the arguments of the call: a sequence of texts
    fmtPlain,            \* formatArgs(args), or Unformatted before the call
    fmtHtml,             \* argsToHtml(args), or Unformatted before the call
    \* ---- one logging call that passes a value of some kind
    kindCall,            \* [platform, recordOutput, at, kind]
    kindOutcome,         \* [called, thrown, recorded]
    \* ---- circularToString(target, {depth}) over a graph of objects
    graph,               \* graph[v]: the values of the keys of object v, in key order
    depth,               \* the depth option
    phase,               \* "scan", "format", "done" or "raised"
    frames,              \* the calls of scan/format in progress: [v, k], k the next key
    walkStack,           \* walkStack of scan
    seenValues,          \* seen of format
    circularIds,         \* circularIds[v]: the id of v, or 0
    idCounter,           \* idCounter
    rendered,            \* the pieces of the string returned, in order
    \* ---- instances constructed with or without a base_console option
    consoles,            \* consoles[i]: [built, given, activeThen, base, recordOutput, realConsoleOutput]
    activeConsole,       \* the instance the router holds, or None
    captured,            \* captured[i]: the tokens in outputs and in outputsHtml of instance i
    delivered,           \* delivered[k]: the tokens that reached console k, which is no instance
    passed               \* the logging calls made so far: [by, token]

instVars == <<options, outputs, outputsHtml, loggedFreshLineId, writing, buffered,
              baseCalls, sinkWrites, handled, issued>>
routerVars == <<currentAsyncConsole, store, cur, pc, inst, previousConsole, caller,
                outcome, seen, afterFinally, timer, rebound, lastSet, nsteps>>
hostVars == <<reflect, hostCell, hostCalls, lastHook, nhook>>
streamVars == <<targetStream, vstream, sinkListeners, listenerInfos, mapEntry, made, notified>>
\* Variables of the stand-alone parts, which the console and router leave alone.
formatVars == <<fmtArgs, fmtPlain, fmtHtml>>
kindVars == <<kindCall, kindOutcome>>
graphVars == <<graph, depth, phase, frames, walkStack, seenValues, circularIds,
               idCounter, rendered>>
baseVars == <<consoles, activeConsole, captured, delivered, passed>>
sideVars == <<streamVars, formatVars, kindVars, graphVars, baseVars>>
\* Variables of the console and the router, which the stand-alone parts leave alone.
coreVars == <<platform, instVars, nops, lastCall, routerVars, hostVars>>
\* What the virtual streams leave alone, and what the formatters leave alone.
exceptStreams == <<coreVars, formatVars, kindVars, graphVars, baseVars>>
exceptFormat == <<coreVars, streamVars, kindVars, graphVars, baseVars>>
exceptKinds == <<coreVars, streamVars, formatVars, graphVars, baseVars>>
exceptGraph == <<coreVars, streamVars, formatVars, kindVars, baseVars>>
exceptBase == <<coreVars, streamVars, formatVars, kindVars, graphVars>>
vars == <<coreVars, sideVars>>

\* ------------------------------------------------------- instance: helpers

Sides == {"out", "err"}

\* node:console writes log/info/debug to _stdout and warn/error to _stderr.
Side(method) == IF method \in {"warn", "error"} THEN "err" ELSE "out"

IsError(arg) == arg.kind = "error"

\* The plain-text line of one call: the rendering of args followed by one newline.
PlainLine(args) == [t |-> "plain", a |-> args]

\* The HTML line of one call: argsToHtml(args) followed by '<br/>\n'.
HtmlLine(args) == [t |-> "html", a |-> args]

\* ansiEscapes.cursorUp(1) + ansiEscapes.eraseLine.
EraseChunk == [t |-> "erase", a |-> <<>>]

\* The mutable state the handlers work on, threaded through their statements.
World ==
    [outputs |-> outputs, outputsHtml |-> outputsHtml, lfid |-> loggedFreshLineId,
     writing |-> writing, buffered |-> buffered, baseCalls |-> baseCalls,
     sinkWrites |-> sinkWrites, handled |-> handled, issued |-> issued]

Commit(w) ==
    /\ outputs' = w.outputs
    /\ outputsHtml' = w.outputsHtml
    /\ loggedFreshLineId' = w.lfid
    /\ writing' = w.writing
    /\ buffered' = w.buffered
    /\ baseCalls' = w.baseCalls
    /\ sinkWrites' = w.sinkWrites
    /\ handled' = w.handled
    /\ issued' = w.issued

\* ------------------------------------------------ instance: node variant

\* A write function that records the chunk whatever recordOutput says.
StreamWriteAlwaysRecords(w, i, side, chunk, sync) ==
    LET w2 == [w EXCEPT !.lfid[i] = None, !.outputs[i] = Append(@, chunk)]
    IN  IF options[i].realConsoleOutput
        THEN [w2 EXCEPT !.sinkWrites = Append(@, [side |-> side, chunk |-> chunk]),
                        !.writing[i][side] = ~sync]
        ELSE w2

\* The write function of VirtualStream: reset the fresh-line id, record the chunk,
\* forward it to the target stream. sync: the target stream calls back before
\* write returns; otherwise the virtual stream stays busy until the target
\* acknowledges.
StreamWrite(w, i, side, chunk, sync) ==
    LET w1 == [w EXCEPT !.lfid[i] = None]
        w2 == IF options[i].recordOutput
              THEN [w1 EXCEPT !.outputs[i] = Append(@, chunk)]
              ELSE w1
    IN  IF options[i].realConsoleOutput
        THEN [w2 EXCEPT !.sinkWrites = Append(@, [side |-> side, chunk |-> chunk]),
                        !.writing[i][side] = ~sync]
        ELSE w2

\* Writable.write on a virtual stream: a chunk that arrives while a write is in
\* flight is held back and written when the stream drains.
WritableWrite(w, i, side, chunk, sync) ==
    IF w.writing[i][side]
    THEN [w EXCEPT !.buffered[i][side] = Append(@, chunk)]
    ELSE StreamWrite(w, i, side, chunk, sync)

\* The target acknowledged: the stream writes the first k held-back chunks, each
\* acknowledged at once except the last, which is acknowledged at once iff lastSync.
RECURSIVE Drain(_, _, _, _, _)
Drain(w, i, side, k, lastSync) ==
    IF k = 0 THEN w
    ELSE LET chunk == Head(w.buffered[i][side])
             w1 == [w EXCEPT !.buffered[i][side] = Tail(@)]
             w2 == StreamWrite(w1, i, side, chunk, IF k = 1 THEN lastSync ELSE TRUE)
         IN  Drain(w2, i, side, k - 1, lastSync)

\* Mutant: the interceptor takes every error call whose first argument is an Error.
InterceptedAnyArity(i, method, args) ==
    /\ method = "error"
    /\ options[i].error_handler
    /\ IsError(args[1])

\* error(err) with an interceptor configured: the call is taken by the interceptor.
Intercepted(i, method, args) ==
    /\ method = "error"
    /\ options[i].error_handler
    /\ Len(args) = 1
    /\ IsError(args[1])

\* The intercepted method of the node variant.
NodeMethod(w, i, method, args, sync) ==
    IF Intercepted(i, method, args)
    THEN [w EXCEPT !.handled = Append(@, args[1])]
    ELSE LET w0 == [w EXCEPT !.issued[i] = Append(@, args)]
             w1 == IF options[i].recordOutput
                   THEN [w0 EXCEPT !.outputsHtml[i] = Append(@, HtmlLine(args))]
                   ELSE w0
         IN  IF ~options[i].realConsoleOutput \/ options[i].recordOutput
             THEN WritableWrite(w1, i, Side(method), PlainLine(args), sync)
             ELSE [w1 EXCEPT !.lfid[i] = None,
                             !.baseCalls = Append(@, [m |-> method, a |-> args])]

\* ---------------------------------------------- instance: browser variant

\* Mutant: the base console is handed the formatted line, not the arguments.
BrowserPassThroughFormatted(method, args) == [m |-> method, a |-> <<PlainLine(args)>>]

\* What the browser variant hands to the base console: the original arguments.
BrowserPassThrough(method, args) == [m |-> method, a |-> args]

\* The intercepted method of the browser variant.
BrowserMethod(w, i, method, args) ==
    IF Intercepted(i, method, args)
    THEN [w EXCEPT !.handled = Append(@, args[1])]
    ELSE LET w0 == [w EXCEPT !.issued[i] = Append(@, args), !.lfid[i] = None]
             w1 == IF options[i].recordOutput
                   THEN [w0 EXCEPT !.outputs[i] = Append(@, PlainLine(args)),
                                   !.outputsHtml[i] = Append(@, HtmlLine(args))]
                   ELSE w0
         IN  IF options[i].realConsoleOutput
             THEN [w1 EXCEPT !.baseCalls = Append(@, BrowserPassThrough(method, args))]
             ELSE w1

\* ------------------------------------------------- instance: both variants

InterceptedMethod(w, i, method, args, sync) ==
    IF platform = "node"
    THEN NodeMethod(w, i, method, args, sync)
    ELSE BrowserMethod(w, i, method, args)

\* Mutant: freshLine overwrites by dropping the last record of the plain-text
\* buffer instead of appending the erase sequence.
FreshLineTruncating(w, i, id, args, sync1, sync2) ==
    LET w1 == IF options[i].supportsAnsi /\ w.lfid[i] = id /\ w.outputs[i] # <<>>
              THEN [w EXCEPT !.outputs[i] = SubSeq(@, 1, Len(@) - 1)]
              ELSE w
        w2 == InterceptedMethod(w1, i, "log", args, sync2)
    IN  [w2 EXCEPT !.lfid[i] = id]

\* freshLine(id, ...args).
FreshLine(w, i, id, args, sync1, sync2) ==
    LET w1 == IF platform = "node" /\ options[i].supportsAnsi /\ w.lfid[i] = id
              THEN WritableWrite(w, i, "out", EraseChunk, sync1)
              ELSE w
        w2 == InterceptedMethod(w1, i, "log", args, sync2)
    IN  [w2 EXCEPT !.lfid[i] = id]

\* clear().
Clear(w, i) ==
    LET w1 == [w EXCEPT !.lfid[i] = None, !.outputs[i] = <<>>, !.outputsHtml[i] = <<>>]
    IN  IF options[i].realConsoleOutput
        THEN [w1 EXCEPT !.baseCalls = Append(@, [m |-> "clear", a |-> <<>>])]
        ELSE w1

\* --------------------------------------------------- SpecConsole: actions

\* The option records a constructor call can produce.
OptionRecords ==
    [recordOutput : BOOLEAN, realConsoleOutput : BOOLEAN,
     supportsAnsi : BOOLEAN, error_handler : BOOLEAN]

\* defaultConsole: recordOutput false, realConsoleOutput true.
DefaultOptions ==
    [recordOutput |-> FALSE, realConsoleOutput |-> TRUE,
     supportsAnsi |-> TRUE, error_handler |-> FALSE]

\* new VirtualConsole({base_console: originalConsole}): the constructor's defaults.
ConstructorDefaults ==
    [recordOutput |-> TRUE, realConsoleOutput |-> FALSE,
     supportsAnsi |-> TRUE, error_handler |-> FALSE]

\* The instance the operations of SpecConsole are made on.
Tested == {"A"}

\* No instance operation was performed yet.
NoCall == [op |-> None, i |-> None, m |-> None, id |-> None, a |-> <<>>]

InitInstances ==
    /\ outputs = [i \in Instances |-> <<>>]
    /\ outputsHtml = [i \in Instances |-> <<>>]
    /\ loggedFreshLineId = [i \in Instances |-> None]
    /\ writing = [i \in Instances |-> [s \in Sides |-> FALSE]]
    /\ buffered = [i \in Instances |-> [s \in Sides |-> <<>>]]
    /\ baseCalls = <<>>
    /\ sinkWrites = <<>>
    /\ handled = <<>>
    /\ issued = [i \in Instances |-> <<>>]

\* Hosts that may install their own router functions.
Hosts == {"h1", "h2"}

Builtin == "builtin"

\* The functions the module starts with: its own.
BuiltinReflect == [Reflect |-> Builtin, ReflectSet |-> Builtin, ReflectRun |-> Builtin]

InitRouter ==
    /\ currentAsyncConsole = None
    /\ store = [p \in Paths |-> None]
    /\ cur = 0
    /\ pc = [c \in Calls |-> "idle"]
    /\ inst = [c \in Calls |-> None]
    /\ previousConsole = [c \in Calls |-> None]
    /\ caller = [c \in Calls |-> 0]
    /\ outcome = [c \in Calls |-> None]
    /\ seen = [c \in Calls |-> None]
    /\ afterFinally = [c \in Calls |-> "pending"]
    /\ timer = [c \in Calls |-> "unset"]
    /\ rebound = [p \in Paths |-> FALSE]
    /\ lastSet = [by |-> Idle, to |-> None]
    /\ nsteps = 0
    /\ reflect = BuiltinReflect
    /\ hostCell = [h \in Hosts |-> None]
    /\ hostCalls = <<>>
    /\ lastHook = [op |-> None, v |-> None, res |-> None]
    /\ nhook = 0

\* Virtual streams created on the target stream.
MaxStreams == 3
VStreams == 1..MaxStreams

\* No virtual stream was created yet, so no listener is registered.
InitStreams ==
    /\ vstream = [s \in VStreams |-> "unborn"]
    /\ sinkListeners = {}
    /\ listenerInfos = [k \in 1..Cardinality(VStreams) |-> {}]
    /\ mapEntry = 0
    /\ made = 0
    /\ notified = {}

\* The stand-alone parts at rest (in the specifications that do not exercise them).
\* The output of a formatter that was not called yet.
Unformatted == <<None>>

\* No argument list was formatted.
InitFormat ==
    /\ fmtArgs = <<>>
    /\ fmtPlain = Unformatted
    /\ fmtHtml = Unformatted

\* The outcome before the call.
NotCalled == [called |-> FALSE, thrown |-> FALSE, recorded |-> FALSE]

\* No call with a value of a chosen kind was made.
InitKinds ==
    /\ kindCall = [platform |-> "node", recordOutput |-> TRUE, at |-> "first", kind |-> "text"]
    /\ kindOutcome = NotCalled

\* The objects of the graphs, the first one being the target.
Objects == {"r", "a", "b"}
Target == "r"

\* circularToString is not running: an empty target was converted.
InitGraph ==
    /\ graph = [v \in Objects |-> <<>>]
    /\ depth = 0
    /\ phase = "done"
    /\ frames = <<>>
    /\ walkStack = {}
    /\ seenValues = {Target}
    /\ circularIds = [v \in Objects |-> 0]
    /\ idCounter = 1
    /\ rendered = <<[t |-> "empty", v |-> Target, ref |-> 0]>>

\* The instances of the base-console part, the consoles that are no instance
\* (originalConsole and one passed as option), and the absent option.
Consoles == {"D", "A", "N"}
Outside == {"real", "custom"}
Absent == "absent"

\* The module as loaded: defaultConsole is built on originalConsole, no other
\* instance exists, nothing was logged.
InitBase ==
    /\ consoles = [i \in Consoles |->
                     IF i = "D"
                     THEN [built |-> TRUE, given |-> "real", activeThen |-> None,
                           base |-> "real", recordOutput |-> FALSE,
                           realConsoleOutput |-> TRUE]
                     ELSE [built |-> FALSE, given |-> Absent, activeThen |-> None,
                           base |-> "real", recordOutput |-> TRUE,
                           realConsoleOutput |-> FALSE]]
    /\ activeConsole = None
    /\ captured = [i \in Consoles |-> [plain |-> <<>>, html |-> <<>>]]
    /\ delivered = [k \in Outside |-> <<>>]
    /\ passed = <<>>

InitSide ==
    /\ targetStream = [isTTY |-> TRUE, hasOn |-> TRUE, hasOff |-> TRUE]
    /\ InitStreams
    /\ InitFormat
    /\ InitKinds
    /\ InitGraph
    /\ InitBase

InitConsole ==
    /\ InitSide
    /\ platform \in Platforms
    /\ \E o \in OptionRecords :
          options = [i \in Instances |->
                        IF i = "D" THEN DefaultOptions
                        ELSE IF i = "A" THEN o ELSE ConstructorDefaults]
    /\ InitInstances
    /\ InitRouter
    /\ nops = 0
    /\ lastCall = NoCall

\* instance[method](...args), called directly on the instance.
CallMethod(i, method, args, sync) ==
    /\ nops < MaxOps
    /\ Commit(InterceptedMethod(World, i, method, args, sync))
    /\ nops' = nops + 1
    /\ lastCall' = [op |-> "method", i |-> i, m |-> method, id |-> None, a |-> args]
    /\ UNCHANGED <<platform, sideVars, options, routerVars, hostVars>>

\* instance.freshLine(id, ...args).
CallFreshLine(i, id, args, sync1, sync2) ==
    /\ nops < MaxOps
    /\ Commit(FreshLine(World, i, id, args, sync1, sync2))
    /\ nops' = nops + 1
    /\ lastCall' = [op |-> "freshLine", i |-> i, m |-> "log", id |-> id, a |-> args]
    /\ UNCHANGED <<platform, sideVars, options, routerVars, hostVars>>

\* instance.clear().
CallClear(i) ==
    /\ nops < MaxOps
    /\ Commit(Clear(World, i))
    /\ nops' = nops + 1
    /\ lastCall' = [op |-> "clear", i |-> i, m |-> None, id |-> None, a |-> <<>>]
    /\ UNCHANGED <<platform, sideVars, options, routerVars, hostVars>>

\* The target stream calls back for the write in flight on one virtual stream;
\* the stream then writes what it held back.
Acknowledge(i, side, k, lastSync) ==
    /\ writing[i][side]
    /\ k \in 0..Len(buffered[i][side])
    /\ (k = 0) = (buffered[i][side] = <<>>)
    /\ k < Len(buffered[i][side]) => ~lastSync
    /\ Commit(Drain([World EXCEPT !.writing[i][side] = FALSE], i, side, k, lastSync))
    /\ UNCHANGED <<platform, sideVars, options, nops, lastCall, hostVars, routerVars>>

NextConsole ==
    \/ \E i \in Tested, m \in Methods, a \in ArgLists, s \in BOOLEAN :
          CallMethod(i, m, a, s)
    \/ \E i \in Tested, id \in FreshIds, a \in ArgLists, s1, s2 \in BOOLEAN :
          CallFreshLine(i, id, a, s1, s2)
    \/ \E i \in Tested : CallClear(i)
    \/ \E i \in Tested, side \in Sides, k \in 0..MaxOps, ls \in BOOLEAN :
          Acknowledge(i, side, k, ls)

SpecConsole == InitConsole /\ [][NextConsole]_vars

\* ----------------------------------------------------- router: resolution

defaultConsole == "D"

\* Instances application code calls hookAsyncContext on.
Hooked == {"A", "B"}

\* Errors a scoped function can throw or reject with.
Errors == {"E1"}

\* Mutant: one store for the whole process instead of one per execution context.
BindingProcessWide(p) == IF platform = "node" THEN store[0] ELSE currentAsyncConsole

\* What the router holds for path p: getStore() of the path's execution context
\* (node), or the single cell whatever the path (browser).
Binding(p) == IF platform = "node" THEN store[p] ELSE currentAsyncConsole

\* Mutant: the resolution without its fallback to the default instance.
ResolveNoDefault(binding) == binding

\* consoleReflect: binding ?? defaultConsole.
Resolve(binding) == IF binding = None THEN defaultConsole ELSE binding

consoleReflect(p) == Resolve(Binding(p))

\* Mutant: the delayed callback runs in the top-level context, not in the one
\* that scheduled it.
TimerBindingTopLevel(c) == IF platform = "node" THEN store[0] ELSE currentAsyncConsole

\* What a delayed callback scheduled by call c's function sees when it runs: the
\* store its scheduling captured (node), or the cell as it is then (browser).
TimerBinding(c) == IF platform = "node" THEN inst[c] ELSE currentAsyncConsole

\* Mutant: the restore is skipped, as it would be without the finally block.
RunFinallySkipped(binding, prev) == binding

\* The finally block of consoleReflectRun: the cell becomes previousConsole.
RunFinally(binding, prev) == prev

\* console.log(token) through the global proxy: the call reaches the resolved instance.
RouterLog(w, binding, args) == InterceptedMethod(w, Resolve(binding), "log", args, TRUE)

\* -------------------------------------------------------- router: actions

Init ==
    /\ InitSide
    /\ platform \in Platforms
    /\ options = [i \in Instances |->
                     IF i = defaultConsole THEN DefaultOptions ELSE ConstructorDefaults]
    /\ InitInstances
    /\ InitRouter
    /\ nops = 0
    /\ lastCall = NoCall

Settled(c) == pc[c] \in {"settled", "observed"}

\* Path p calls v.hookAsyncContext(fn); fn logs and then returns a value, throws
\* (kind is the error) or suspends. The first function that suspends has scheduled
\* a delayed callback before.
Start(p, c, v, kind) ==
    /\ cur = p
    /\ pc[c] = "idle"
    /\ \A d \in Calls : d < c => pc[d] # "idle"
    /\ LET prev == Binding(p)
           threw == kind \in Errors
       IN  /\ previousConsole' = [previousConsole EXCEPT ![c] = prev]
           /\ Commit(RouterLog(World, v, <<TokenArg(c)>>))
           /\ IF platform = "browser"
              THEN /\ currentAsyncConsole' = IF threw THEN RunFinally(v, prev) ELSE v
                   /\ afterFinally' = [afterFinally EXCEPT
                         ![c] = IF threw THEN RunFinally(v, prev) ELSE "pending"]
                   /\ pc' = [pc EXCEPT ![c] = IF threw THEN "settled"
                                              ELSE IF kind = "return" THEN "returned"
                                              ELSE "suspended"]
                   /\ seen' = seen
                   /\ store' = store
              ELSE /\ store' = [store EXCEPT ![c] = v]
                   /\ afterFinally' = [afterFinally EXCEPT ![c] = store'[p]]
                   /\ pc' = [pc EXCEPT ![c] = IF kind = "await" THEN "suspended"
                                              ELSE "observed"]
                   /\ seen' = [seen EXCEPT ![c] = IF threw THEN kind
                                                  ELSE IF kind = "return" THEN "ok"
                                                  ELSE None]
                   /\ currentAsyncConsole' = currentAsyncConsole
           /\ outcome' = [outcome EXCEPT ![c] = IF threw THEN kind
                                                ELSE IF kind = "return" THEN "ok"
                                                ELSE None]
    /\ inst' = [inst EXCEPT ![c] = v]
    /\ caller' = [caller EXCEPT ![c] = p]
    /\ timer' = [timer EXCEPT ![c] = IF kind = "await" /\ \A d \in Calls : timer[d] = "unset"
                                      THEN "armed" ELSE "unset"]
    /\ UNCHANGED <<platform, sideVars, options, nops, lastCall, hostVars, cur, rebound, lastSet, nsteps>>

\* The running path logs its token through the global console.
Log(p) ==
    /\ cur = p
    /\ nsteps < MaxSteps
    /\ Commit(RouterLog(World, Binding(p), <<TokenArg(p)>>))
    /\ nsteps' = nsteps + 1
    /\ UNCHANGED <<platform, sideVars, options, nops, lastCall, hostVars, currentAsyncConsole, store, cur, pc, inst,
                   previousConsole, caller, outcome, seen, afterFinally, timer,
                   rebound, lastSet>>

\* The running path calls v.hookAsyncContext() with no function.
SetActive(p, v) ==
    /\ cur = p
    /\ nsteps < MaxSteps
    /\ IF platform = "browser"
       THEN currentAsyncConsole' = v /\ store' = store
       ELSE store' = [store EXCEPT ![p] = v] /\ currentAsyncConsole' = currentAsyncConsole
    /\ rebound' = [rebound EXCEPT ![p] = TRUE]
    /\ lastSet' = [by |-> p, to |-> v]
    /\ nsteps' = nsteps + 1
    /\ UNCHANGED <<platform, sideVars, instVars, nops, lastCall, hostVars, cur, pc, inst, previousConsole, caller,
                   outcome, seen, afterFinally, timer>>

\* The running path suspends (awaits something) and the event loop takes over.
Yield(p) ==
    /\ cur = p
    /\ cur' = Idle
    /\ pc' = IF p \in Calls THEN [pc EXCEPT ![p] = "suspended"] ELSE pc
    /\ UNCHANGED <<platform, sideVars, instVars, nops, lastCall, hostVars, currentAsyncConsole, store, inst,
                   previousConsole, caller, outcome, seen, afterFinally, timer,
                   rebound, lastSet, nsteps>>

\* A suspended scoped function is resumed by what it awaited.
Resume(c) ==
    /\ cur = Idle
    /\ pc[c] = "suspended"
    /\ cur' = c
    /\ pc' = [pc EXCEPT ![c] = "running"]
    /\ UNCHANGED <<platform, sideVars, instVars, nops, lastCall, hostVars, currentAsyncConsole, store, inst,
                   previousConsole, caller, outcome, seen, afterFinally, timer,
                   rebound, lastSet, nsteps>>

\* The top-level script is resumed by what it awaited.
ResumeMain ==
    /\ cur = Idle
    /\ cur' = 0
    /\ UNCHANGED <<platform, sideVars, instVars, nops, lastCall, hostVars, currentAsyncConsole, store, pc, inst,
                   previousConsole, caller, outcome, seen, afterFinally, timer,
                   rebound, lastSet, nsteps>>

\* The scoped function ends its last segment: its promise fulfils or rejects. In
\* node that promise is what hookAsyncContext returned; in the browser the async
\* wrapper is still to resume.
Complete(c, out) ==
    /\ cur = c
    /\ pc[c] = "running"
    /\ outcome' = [outcome EXCEPT ![c] = out]
    /\ pc' = [pc EXCEPT ![c] = IF platform = "browser" THEN "returned" ELSE "settled"]
    /\ cur' = Idle
    /\ UNCHANGED <<platform, sideVars, instVars, nops, lastCall, hostVars, currentAsyncConsole, store, inst,
                   previousConsole, caller, seen, afterFinally, timer, rebound,
                   lastSet, nsteps>>

\* Browser: the wrapper resumes after its await, runs finally and settles.
Finish(c) ==
    /\ platform = "browser"
    /\ cur = Idle
    /\ pc[c] = "returned"
    /\ currentAsyncConsole' = RunFinally(currentAsyncConsole, previousConsole[c])
    /\ afterFinally' = [afterFinally EXCEPT ![c] = currentAsyncConsole']
    /\ pc' = [pc EXCEPT ![c] = "settled"]
    /\ UNCHANGED <<platform, sideVars, instVars, nops, lastCall, hostVars, store, cur, inst, previousConsole, caller,
                   outcome, seen, timer, rebound, lastSet, nsteps>>

\* The caller, awaiting the promise hookAsyncContext returned, resumes with its result.
Observe(c) ==
    /\ cur = Idle
    /\ pc[c] = "settled"
    /\ caller[c] \in Calls => pc[caller[c]] = "suspended"
    /\ seen' = [seen EXCEPT ![c] = outcome[c]]
    /\ cur' = caller[c]
    /\ pc' = [d \in Calls |-> IF d = c THEN "observed"
                              ELSE IF d = caller[c] THEN "running" ELSE pc[d]]
    /\ UNCHANGED <<platform, sideVars, instVars, nops, lastCall, hostVars, currentAsyncConsole, store, inst,
                   previousConsole, caller, outcome, afterFinally, timer, rebound,
                   lastSet, nsteps>>

\* The delayed callback of call c runs (after pending microtasks) and logs.
Fire(c) ==
    /\ cur = Idle
    /\ timer[c] = "armed"
    /\ \A d \in Calls : pc[d] # "returned"
    /\ Commit(RouterLog(World, TimerBinding(c), <<TimerArg(c)>>))
    /\ timer' = [timer EXCEPT ![c] = IF Settled(c) THEN "firedLate" ELSE "fired"]
    /\ UNCHANGED <<platform, sideVars, options, nops, lastCall, hostVars, currentAsyncConsole, store, cur, pc, inst,
                   previousConsole, caller, outcome, seen, afterFinally, rebound,
                   lastSet, nsteps>>

Next ==
    \/ \E p \in Paths, c \in Calls, v \in Hooked, kind \in {"return", "await"} \cup Errors :
          Start(p, c, v, kind)
    \/ \E p \in Paths : Log(p)
    \/ \E p \in Paths, v \in Hooked : SetActive(p, v)
    \/ \E p \in Paths : Yield(p)
    \/ \E c \in Calls : Resume(c)
    \/ ResumeMain
    \/ \E c \in Calls, out \in {"ok"} \cup Errors : Complete(c, out)
    \/ \E c \in Calls : Finish(c)
    \/ \E c \in Calls : Observe(c)
    \/ \E c \in Calls : Fire(c)

Spec == Init /\ [][Next]_vars

\* ------------------------------------------- router: installed functions

\* Router operations made through the installed functions per behaviour of SpecReflect.
MaxHooks == 3

\* Mutant: setGlobalConsoleReflect forgets to replace consoleReflectRun.
InstalledKeepsRun(old, h) == [Reflect |-> h, ReflectSet |-> h, ReflectRun |-> old.ReflectRun]

\* setGlobalConsoleReflect(R, S, X) of host h: the three functions are replaced.
Installed(old, h) == [Reflect |-> h, ReflectSet |-> h, ReflectRun |-> h]

\* Host h's resolve function R, applied to the default instance.
HostReflect(h, default) == IF hostCell[h] = None THEN default ELSE hostCell[h]

\* What host h's run function X returns for a function that returned value.
HostRunResult(h, value) == [by |-> h, value |-> value]

\* consoleReflect(): the installed resolve function, called by the top-level path.
ActiveConsole ==
    IF reflect.Reflect = Builtin
    THEN consoleReflect(0)
    ELSE HostReflect(reflect.Reflect, defaultConsole)

\* setGlobalConsoleReflect(R, S, X) by host h.
SetGlobalConsoleReflect(h) ==
    /\ cur = 0
    /\ nhook < MaxHooks
    /\ reflect' = Installed(reflect, h)
    /\ lastHook' = [op |-> "install", v |-> h, res |-> None]
    /\ nhook' = nhook + 1
    /\ UNCHANGED <<platform, sideVars, instVars, nops, lastCall, routerVars, hostCell, hostCalls>>

\* getGlobalConsoleReflect(): Reflect is the module's wrapper around R.
GetGlobalConsoleReflect ==
    /\ cur = 0
    /\ nhook < MaxHooks
    /\ lastHook' = [op |-> "get", v |-> None,
                    res |-> [Reflect |-> <<"wrapper", reflect.Reflect>>,
                             ReflectSet |-> reflect.ReflectSet,
                             ReflectRun |-> reflect.ReflectRun]]
    /\ nhook' = nhook + 1
    /\ UNCHANGED <<platform, sideVars, instVars, nops, lastCall, routerVars, reflect, hostCell,
                   hostCalls>>

\* console.log(token) by the top-level path, resolved by a host's function.
HostLog(h) ==
    /\ cur = 0
    /\ nhook < MaxHooks
    /\ LET target == HostReflect(h, defaultConsole)
       IN  /\ Commit(InterceptedMethod(World, target, "log", <<TokenArg(0)>>, TRUE))
           /\ lastHook' = [op |-> "log", v |-> None, res |-> target]
    /\ hostCalls' = Append(hostCalls, [f |-> "Reflect", h |-> h, v |-> defaultConsole])
    /\ nhook' = nhook + 1
    /\ UNCHANGED <<platform, sideVars, options, nops, lastCall, routerVars, reflect, hostCell>>

\* v.hookAsyncContext() handed to host h's set function.
HostSet(h, v) ==
    /\ cur = 0
    /\ nhook < MaxHooks
    /\ hostCell' = [hostCell EXCEPT ![h] = v]
    /\ hostCalls' = Append(hostCalls, [f |-> "ReflectSet", h |-> h, v |-> v])
    /\ lastHook' = [op |-> "set", v |-> v, res |-> None]
    /\ nhook' = nhook + 1
    /\ UNCHANGED <<platform, sideVars, instVars, nops, lastCall, routerVars, reflect>>

\* v.hookAsyncContext(fn) handed to host h's run function: it binds v in its own
\* cell while fn runs (fn logs its token through the global console, then
\* returns) and hookAsyncContext returns what the host's function returns.
HostRun(h, v) ==
    /\ cur = 0
    /\ nhook < MaxHooks
    /\ LET target == IF reflect.Reflect = Builtin THEN consoleReflect(0) ELSE v
       IN  Commit(InterceptedMethod(World, target, "log", <<TokenArg(1)>>, TRUE))
    /\ hostCalls' =
          hostCalls \o (IF reflect.Reflect = Builtin THEN <<>>
                        ELSE <<[f |-> "Reflect", h |-> reflect.Reflect, v |-> defaultConsole]>>)
                    \o <<[f |-> "ReflectRun", h |-> h, v |-> v]>>
    /\ lastHook' = [op |-> "run", v |-> v, res |-> HostRunResult(h, "ok")]
    /\ nhook' = nhook + 1
    /\ UNCHANGED <<platform, sideVars, options, nops, lastCall, routerVars, reflect, hostCell>>

\* console.log(token): the proxy calls consoleReflect, whoever supplied it.
ReflectLog ==
    IF reflect.Reflect = Builtin THEN Log(0) ELSE HostLog(reflect.Reflect)

\* v.hookAsyncContext(): consoleReflectSet(v), whoever supplied it.
HookAsyncContextSet(v) ==
    IF reflect.ReflectSet = Builtin THEN SetActive(0, v) ELSE HostSet(reflect.ReflectSet, v)

\* v.hookAsyncContext(fn): consoleReflectRun(v, fn), whoever supplied it.
HookAsyncContextRun(c, v) ==
    IF reflect.ReflectRun = Builtin
    THEN Start(0, c, v, "return")
    ELSE c = 1 /\ HostRun(reflect.ReflectRun, v)

NextReflect ==
    \/ \E h \in Hosts : SetGlobalConsoleReflect(h)
    \/ GetGlobalConsoleReflect
    \/ ReflectLog
    \/ \E v \in Hooked : HookAsyncContextSet(v)
    \/ \E c \in Calls, v \in Hooked : HookAsyncContextRun(c, v)
    \/ Yield(0)
    \/ ResumeMain
    \/ \E c \in Calls : Finish(c)

SpecReflect == Init /\ [][NextReflect]_vars

\* ---------------------------------------------------- router: properties

\* A buffer (or the base console's call list) holds a record of the call logging arg.
Holds(buf, arg) == \E k \in 1..Len(buf) : buf[k].a = <<arg>>

Count(buf, arg) == Cardinality({k \in 1..Len(buf) : buf[k].a = <<arg>>})

\* Instance i recorded a call logging arg.
Received(i, arg) == Holds(outputs[i], arg) \/ Holds(outputsHtml[i], arg)

\* Every record of arg is in the buffers of instance i and nowhere else.
OnlyIn(i, arg) ==
    /\ \A j \in Instances : Received(j, arg) => j = i
    /\ ~Holds(baseCalls, arg)

InProgress(c) == pc[c] \in {"running", "suspended", "returned"}

NoCallInProgress == \A c \in Calls : ~InProgress(c)

\* C1 as stated: whatever the router, every logging call made by the function of
\* a run-scoped call is recorded by the instance the call was made on and by no
\* other, whatever other calls overlap with it.
C1_IsolationAnyRouter ==
    \A c \in Calls : ~rebound[c] => OnlyIn(inst[c], TokenArg(c))

\* C1 amended: with the node router (AsyncLocalStorage), every logging call made
\* by the function of a run-scoped call, before and after its suspension points,
\* is recorded by the instance the call was made on and by no other, under every
\* interleaving with other calls.
C1_IsolationNode ==
    platform = "node" => \A c \in Calls : ~rebound[c] => OnlyIn(inst[c], TokenArg(c))

\* Two calls on distinct instances are in progress at once and the first has
\* logged before and after its suspension (node).
C1_Witness ==
    /\ platform = "node"
    /\ InProgress(1) /\ InProgress(2)
    /\ inst[1] # inst[2]
    /\ Count(outputs[inst[1]], TokenArg(1)) = 2
    /\ Count(outputs[inst[2]], TokenArg(2)) = 1

\* C2 as stated: once every run-scoped call has completed, normally or by error,
\* the top-level path resolves the instance that was active before the first call
\* started: the default instance when nothing was ever set active.
C2_RestoredAfterAll ==
    (lastSet.by = Idle /\ NoCallInProgress) => consoleReflect(0) = defaultConsole

\* C3: when the caller observes the error of a run-scoped call, it is the error
\* the function threw or rejected with, and the call's restore step has set the
\* binding back to the one saved when the call started.
C3_ErrorAfterRestore ==
    \A c \in Calls :
        (pc[c] = "observed" /\ outcome[c] \in Errors) =>
            /\ seen[c] = outcome[c]
            /\ afterFinally[c] = previousConsole[c]

\* A caller has observed the error of a browser call whose restore changed the cell.
C3_Witness ==
    \E c \in Calls :
        /\ pc[c] = "observed"
        /\ outcome[c] \in Errors
        /\ platform = "browser"
        /\ previousConsole[c] # inst[c]

C6_SetActivePersists ==
    (lastSet.by # Idle /\ cur = lastSet.by /\ NoCallInProgress) =>
        consoleReflect(cur) = lastSet.to

\* No path has called set-active.
NoRebound == \A p \in Paths : ~rebound[p]

\* Call 2 started while call 1 was in progress: the binding it saved is call 1's
\* instance (without set-active the cell holds None once call 1 has completed).
Enclosed == pc[2] # "idle" /\ previousConsole[2] = inst[1]

\* The calls in progress form a stack: call 1 has not completed before a call
\* that started inside it.
ProperlyNested == Enclosed => (InProgress(1) \/ ~InProgress(2))

\* The instance of the innermost call in progress; None when there is none.
Innermost ==
    IF InProgress(2) THEN inst[2]
    ELSE IF InProgress(1) THEN inst[1]
    ELSE None

PlainRecords(buf) ==
    LET recs == SelectSeq(buf, LAMBDA e : e.t = "plain")
    IN  [k \in 1..Len(recs) |-> recs[k].a]

\* s can be obtained from t by deleting elements: s keeps the order of t.
RECURSIVE IsSubsequence(_, _)
IsSubsequence(s, t) ==
    IF s = <<>> THEN TRUE
    ELSE IF t = <<>> THEN FALSE
    ELSE IF Head(s) = Head(t) THEN IsSubsequence(Tail(s), Tail(t))
    ELSE IsSubsequence(s, Tail(t))

Last(buf) == buf[Len(buf)]

\* This step is a call instance[method](...args) on instance i.
MethodStep(i) == nops' = nops + 1 /\ lastCall'.op = "method" /\ lastCall'.i = i

\* This step is a logging call on instance i that the interceptor does not take.
LoggingStep(i) == MethodStep(i) /\ ~Intercepted(i, lastCall'.m, lastCall'.a)

\* C7 as stated: the call records of the plain-text buffer of an instance appear
\* in the order the calls were made on it, whatever sides the methods write to
\* and however the real sink acknowledges.
C7_RecordsInCallOrder ==
    \A i \in Tested : IsSubsequence(PlainRecords(outputs[i]), issued[i])

\* C8 as stated: when a logging call returns on an instance with recordOutput
\* enabled, the last record of outputs and the last record of outputsHtml are the
\* records of that call, also while the real sink has an earlier write to acknowledge.
C8_RecordedAtReturn ==
    [][\A i \in Tested :
          (LoggingStep(i) /\ options[i].recordOutput) =>
              /\ outputs'[i] # <<>> /\ Last(outputs'[i]) = PlainLine(lastCall'.a)
              /\ outputsHtml'[i] # <<>> /\ Last(outputsHtml'[i]) = HtmlLine(lastCall'.a)]_vars

\* The call is written through the instance's own streams (node: originalMethod.apply).
ThroughStreams(i) ==
    platform = "node" /\ (~options[i].realConsoleOutput \/ options[i].recordOutput)

C10_ExtendsBothBuffers ==
    [][\A i \in Tested :
          LoggingStep(i) =>
              IF options[i].recordOutput
              THEN /\ outputs'[i] = Append(outputs[i], PlainLine(lastCall'.a))
                   /\ outputsHtml'[i] = Append(outputsHtml[i], HtmlLine(lastCall'.a))
              ELSE /\ outputs'[i] = outputs[i]
                   /\ outputsHtml'[i] = outputsHtml[i]]_vars

\* C11: the error interceptor is invoked exactly by error(e) with e the only
\* argument and an Error, on an instance that has an interceptor: it is invoked
\* once with e, and the buffers, the last fresh-line identifier, the base console
\* and its streams are left as they were. Every other call leaves the
\* interceptor alone.
C11_InterceptorExactly ==
    [][\A i \in Tested :
          MethodStep(i) =>
              IF /\ lastCall'.m = "error" /\ options[i].error_handler
                 /\ Len(lastCall'.a) = 1 /\ lastCall'.a[1].kind = "error"
              THEN /\ handled' = Append(handled, lastCall'.a[1])
                   /\ outputs' = outputs /\ outputsHtml' = outputsHtml
                   /\ loggedFreshLineId' = loggedFreshLineId
                   /\ baseCalls' = baseCalls /\ sinkWrites' = sinkWrites
                   /\ buffered' = buffered
              ELSE handled' = handled]_vars

\* The interceptor took a call made after a freshLine on a recording instance with
\* pass-through: the identifier and the buffers are still those of the freshLine.
C11_Witness ==
    /\ options["A"].error_handler /\ options["A"].recordOutput
    /\ options["A"].realConsoleOutput
    /\ handled # <<>>
    /\ loggedFreshLineId["A"] # None
    /\ Len(outputsHtml["A"]) = 1

\* This step is a call of freshLine on instance i.
FreshStep(i) == nops' = nops + 1 /\ lastCall'.op = "freshLine" /\ lastCall'.i = i

\* The operation called before on instance i was freshLine with identifier id.
AfterFreshLine(i, id) == lastCall.op = "freshLine" /\ lastCall.i = i /\ lastCall.id = id

\* The operation called before on instance i was clear, a logging call the
\* interceptor did not take, or a freshLine with another identifier than id.
AfterOtherOutput(i, id) ==
    /\ lastCall.i = i
    /\ \/ lastCall.op = "clear"
       \/ lastCall.op = "method" /\ ~Intercepted(i, lastCall.m, lastCall.a)
       \/ lastCall.op = "freshLine" /\ lastCall.id # id

Erases(buf) == Cardinality({k \in 1..Len(buf) : buf[k] = EraseChunk})

\* The chunks that went to the base console's stdout stream, in order.
SinkOut(writes) ==
    LET out == SelectSeq(writes, LAMBDA e : e.side = "out")
    IN  [k \in 1..Len(out) |-> out[k].chunk]

\* What instance i's stdout stream was handed and recorded (recordOutput) or
\* forwarded (realConsoleOutput), followed by what it still holds back.
Destination(i, outs, sink, held) ==
    (IF options[i].recordOutput THEN outs[i] ELSE SinkOut(sink)) \o held[i]["out"]

\* The erase sequence was handed to instance i's stdout stream in this step.
ErasePassed(i) ==
    Erases(Destination(i, outputs', sinkWrites', buffered')) =
        Erases(Destination(i, outputs, sinkWrites, buffered)) + 1

Observable(i) == options[i].recordOutput \/ options[i].realConsoleOutput

\* C12 as stated: on a node instance with ANSI support, a freshLine(id) called
\* right after a freshLine with the same id hands the erase sequence to the
\* instance's output destination before the new line, and id is the last
\* identifier afterwards, whatever recordOutput and realConsoleOutput are and
\* however many same-id calls came before.
C12_EraseOnSameId ==
    [][\A i \in Tested :
          (/\ FreshStep(i) /\ platform = "node" /\ options[i].supportsAnsi
           /\ AfterFreshLine(i, lastCall'.id)) =>
              /\ loggedFreshLineId'[i] = lastCall'.id
              /\ Observable(i) => ErasePassed(i)
              /\ options[i].recordOutput =>
                    LET d == Destination(i, outputs', sinkWrites', buffered')
                    IN  /\ Len(d) >= 2
                        /\ d[Len(d) - 1] = EraseChunk
                        /\ d[Len(d)] = PlainLine(lastCall'.a)]_vars

\* C13 as stated: a freshLine(id) called right after clear, after an ordinary
\* logging call or after a freshLine with another id does not emit the erase
\* sequence, even if an earlier freshLine used the same id.
C13_NoEraseAfterOtherOutput ==
    [][\A i \in Tested :
          (FreshStep(i) /\ AfterOtherOutput(i, lastCall'.id)) =>
              /\ Erases(outputs'[i]) = Erases(outputs[i])
              /\ Erases(buffered'[i]["out"]) = Erases(buffered[i]["out"])
              /\ Erases(SinkOut(sinkWrites')) = Erases(SinkOut(sinkWrites))]_vars

\* C14 as stated: after clear() the two buffers are empty and the last
\* identifier is absent, and they stay so until the next operation is called on
\* the instance (a second clear leaves them so).
C14_EmptyAfterClear ==
    \A i \in Tested :
        (lastCall.op = "clear" /\ lastCall.i = i) =>
            /\ outputs[i] = <<>>
            /\ outputsHtml[i] = <<>>
            /\ loggedFreshLineId[i] = None

IsPrefix(s, t) == Len(s) <= Len(t) /\ SubSeq(t, 1, Len(s)) = s

\* This step is a call of clear on instance i.
ClearStep(i) == nops' = nops + 1 /\ lastCall'.op = "clear" /\ lastCall'.i = i

\* C15: every step leaves each buffer of an instance unchanged, extends it (the
\* old content is a prefix of the new) or, in clear only, resets it to empty;
\* no step removes or rewrites a part of a buffer.
C15_BuffersGrowOrReset ==
    [][\A i \in Instances :
          /\ \/ IsPrefix(outputs[i], outputs'[i])
             \/ ClearStep(i) /\ outputs'[i] = <<>>
          /\ \/ IsPrefix(outputsHtml[i], outputsHtml'[i])
             \/ ClearStep(i) /\ outputsHtml'[i] = <<>>]_vars

\* A recording instance logged, was cleared and logged again: its buffers were
\* extended, reset and extended, and hold the second record only.
C15_Witness ==
    /\ options["A"].recordOutput
    /\ lastCall.op = "method"
    /\ Len(issued["A"]) = 2
    /\ outputs["A"] = <<PlainLine(issued["A"][2])>>
    /\ outputsHtml["A"] = <<HtmlLine(issued["A"][2])>>
    /\ buffered["A"]["out"] = <<>> /\ buffered["A"]["err"] = <<>>

\* ----------------------------------------------- SpecReflect: properties

\* This step is a router operation made while host functions are installed.
HostedStep(op) ==
    /\ reflect.Reflect # Builtin
    /\ reflect' = reflect
    /\ nhook' = nhook + 1
    /\ lastHook'.op = op

\* C16: once a host has installed its functions, a resolution returns what the
\* host's resolve function returns for the default instance, hookAsyncContext()
\* calls the host's set function with the instance, hookAsyncContext(fn) calls
\* the host's run function with the instance and returns its result,
\* getGlobalConsoleReflect returns the installed set and run functions, and none
\* of these operations writes the built-in cell or store.
C16_InstalledFunctionsUsed ==
    [][LET h == reflect.Reflect
       IN  /\ (reflect.Reflect # Builtin /\ cur = 0 /\ cur' = 0) =>
                  /\ currentAsyncConsole' = currentAsyncConsole
                  /\ store' = store
           /\ HostedStep("log") =>
                  /\ lastHook'.res = HostReflect(h, defaultConsole)
                  /\ IF options[lastHook'.res].recordOutput
                     THEN Count(outputs'[lastHook'.res], TokenArg(0))
                            = Count(outputs[lastHook'.res], TokenArg(0)) + 1
                     ELSE Count(baseCalls', TokenArg(0)) = Count(baseCalls, TokenArg(0)) + 1
                  /\ Last(hostCalls') = [f |-> "Reflect", h |-> h, v |-> defaultConsole]
           /\ HostedStep("set") =>
                  /\ Last(hostCalls') = [f |-> "ReflectSet", h |-> h, v |-> lastHook'.v]
                  /\ Len(hostCalls') = Len(hostCalls) + 1
           /\ HostedStep("run") =>
                  /\ Last(hostCalls') = [f |-> "ReflectRun", h |-> h, v |-> lastHook'.v]
                  /\ lastHook'.res = HostRunResult(h, "ok")
           /\ HostedStep("get") =>
                  /\ lastHook'.res.ReflectSet = h
                  /\ lastHook'.res.ReflectRun = h]_vars

\* A host installed its functions while the built-in cell or store was bound to
\* an instance, rebound its own cell to another one, and a log resolved the
\* host's instance.
C16_Witness ==
    /\ reflect.Reflect # Builtin
    /\ Binding(0) # None
    /\ lastHook.op = "log"
    /\ lastHook.res # defaultConsole
    /\ lastHook.res # Binding(0)
    /\ Holds(outputs[lastHook.res], TokenArg(0))

\* ---------------------------------------------------------------------------
\* virtual streams: the shared resize listener of a target stream (node)
\* ---------------------------------------------------------------------------

\* The console and the router as the module leaves them when it is loaded on node.
InitCore ==
    /\ platform = "node"
    /\ options = [i \in Instances |->
                     IF i = defaultConsole THEN DefaultOptions ELSE ConstructorDefaults]
    /\ InitInstances
    /\ InitRouter
    /\ nops = 0
    /\ lastCall = NoCall

\* The target streams told apart by what the code asks of them: isTTY, on, off.
Sinks == [isTTY : BOOLEAN, hasOn : BOOLEAN, hasOff : BOOLEAN]

\* ref.deref() yields the virtual stream until it is collected.
Deref(s) == vstream[s] = "alive"

\* stream.on?.('resize', listenerInfo.listener)
SinkOn(regs, k) == IF targetStream.hasOn THEN regs \cup {k} ELSE regs

\* An unsubscription that removes nothing.
SinkOffIgnored(regs, k) == regs

\* stream.off?.('resize', listenerInfo.listener): nothing happens without off.
SinkOff(regs, k) == IF targetStream.hasOff THEN regs \ {k} ELSE regs

\* A finalization callback that drops the entry of the target stream but leaves
\* the listener registered.
RegistryCleanupKeepsListener(infos, entry, regs, s) ==
    IF entry = 0 THEN [infos |-> infos, entry |-> entry, regs |-> regs]
    ELSE LET left == infos[entry] \ {s}
         IN  IF left # {}
             THEN [infos |-> [infos EXCEPT ![entry] = left], entry |-> entry, regs |-> regs]
             ELSE [infos |-> [infos EXCEPT ![entry] = left], entry |-> 0, regs |-> regs]

\* The callback of virtualStreamCleanupRegistry for the collected virtual stream s.
RegistryCleanup(infos, entry, regs, s) ==
    IF entry = 0 THEN [infos |-> infos, entry |-> entry, regs |-> regs]
    ELSE LET left == infos[entry] \ {s}
         IN  IF left # {}
             THEN [infos |-> [infos EXCEPT ![entry] = left], entry |-> entry, regs |-> regs]
             ELSE [infos |-> [infos EXCEPT ![entry] = left],
                   entry |-> 0,
                   regs  |-> SinkOff(regs, entry)]

\* new VirtualStream(targetStream, ...): on a terminal the stream joins the
\* listenerInfo of the target stream, which getListenerInfo creates and
\* subscribes when the target stream has none.
NewVirtualStream(s) ==
    /\ vstream[s] = "unborn"
    /\ vstream' = [vstream EXCEPT ![s] = "alive"]
    /\ IF ~targetStream.isTTY
       THEN UNCHANGED <<sinkListeners, listenerInfos, mapEntry, made>>
       ELSE IF mapEntry # 0
            THEN /\ listenerInfos' = [listenerInfos EXCEPT ![mapEntry] = @ \cup {s}]
                 /\ UNCHANGED <<sinkListeners, mapEntry, made>>
            ELSE /\ made' = made + 1
                 /\ listenerInfos' = [listenerInfos EXCEPT ![made + 1] = {s}]
                 /\ sinkListeners' = SinkOn(sinkListeners, made + 1)
                 /\ mapEntry' = made + 1
    /\ UNCHANGED <<exceptStreams, targetStream, notified>>

\* The garbage collector reclaims the virtual stream; its callback is pending.
Collect(s) ==
    /\ vstream[s] = "alive"
    /\ vstream' = [vstream EXCEPT ![s] = "collected"]
    /\ UNCHANGED <<exceptStreams, targetStream, sinkListeners, listenerInfos, mapEntry,
                   made, notified>>

\* The finalization callback of a virtual stream that was registered.
Cleanup(s) ==
    /\ vstream[s] = "collected"
    /\ targetStream.isTTY
    /\ vstream' = [vstream EXCEPT ![s] = "cleaned"]
    /\ LET after == RegistryCleanup(listenerInfos, mapEntry, sinkListeners, s)
       IN  /\ listenerInfos' = after.infos
           /\ mapEntry' = after.entry
           /\ sinkListeners' = after.regs
    /\ UNCHANGED <<exceptStreams, targetStream, made, notified>>

\* The virtual streams of listenerInfo k that are still reachable.
Live(k) == {s \in listenerInfos[k] : Deref(s)}

\* The target stream emits 'resize': every registered listener forwards it to
\* its live virtual streams, prunes the others, and unsubscribes when none is left.
Resize ==
    /\ sinkListeners # {}
    /\ LET emptied == {k \in sinkListeners : Live(k) = {}}
       IN  /\ listenerInfos' = [k \in DOMAIN listenerInfos |->
                                   IF k \in sinkListeners THEN Live(k)
                                   ELSE listenerInfos[k]]
           /\ sinkListeners' = IF targetStream.hasOff THEN sinkListeners \ emptied
                               ELSE sinkListeners
           /\ mapEntry' = IF emptied # {} THEN 0 ELSE mapEntry
           /\ notified' = UNION {Live(k) : k \in sinkListeners}
    /\ UNCHANGED <<exceptStreams, targetStream, vstream, made>>

InitStreamsAny ==
    /\ InitCore
    /\ InitFormat
    /\ InitKinds
    /\ InitGraph
    /\ InitBase
    /\ targetStream \in Sinks
    /\ InitStreams

NextStreams ==
    \/ \E s \in VStreams : NewVirtualStream(s)
    \/ \E s \in VStreams : Collect(s)
    \/ \E s \in VStreams : Cleanup(s)
    \/ Resize

SpecStreams == InitStreamsAny /\ [][NextStreams]_vars

\* ---------------------------------------------------------------------------
\* SpecStreams: properties
\* ---------------------------------------------------------------------------

\* Every virtual stream created so far was collected and had its callback run.
AllFinalized ==
    /\ \E s \in VStreams : vstream[s] = "cleaned"
    /\ \A s \in VStreams : vstream[s] \in {"unborn", "cleaned"}

Attached == {s \in VStreams : targetStream.isTTY /\ Deref(s)}

\* The step is a resize of the target stream: every other step changes vstream.
ResizeStep == vstream' = vstream

\* After the step at most one listener is registered, and one is registered
\* exactly when the target stream has an entry with a non-empty set of
\* references.
OneListenerWhileAttached ==
    /\ Cardinality(sinkListeners') <= 1
    /\ sinkListeners' # {} <=> (mapEntry' # 0 /\ listenerInfos'[mapEntry'] # {})
    /\ sinkListeners' \subseteq {mapEntry'}

\* A resize reaches exactly the attached virtual streams that are reachable;
\* each of them belongs to one registered listener only.
DeliveredOnce ==
    ResizeStep =>
        /\ notified' = Attached
        /\ \A s \in Attached :
              Cardinality({k \in sinkListeners : s \in listenerInfos[k]}) = 1

\* C28 as stated: whatever the terminal target stream, at most one listener of
\* this module is registered on it however many virtual streams are attached,
\* it is registered exactly while the set of references of the target stream is
\* non-empty, and each resize is delivered once to every attached virtual
\* stream that is alive.
C28_OneListenerAnySink ==
    [][targetStream.isTTY => (OneListenerWhileAttached /\ DeliveredOnce)]_vars

\* C28 amended: the same on a terminal target stream that has both on and off;
\* on any terminal target stream each resize is delivered once to every
\* attached virtual stream that is alive.
C28_OneListenerSubscribable ==
    [][/\ (targetStream.isTTY /\ targetStream.hasOn /\ targetStream.hasOff)
             => OneListenerWhileAttached
       /\ targetStream.isTTY => DeliveredOnce]_vars

\* Three virtual streams share the one listener of a subscribable terminal; a
\* resize reached the two that are alive and not the collected one.
C28_Witness ==
    /\ targetStream = [isTTY |-> TRUE, hasOn |-> TRUE, hasOff |-> TRUE]
    /\ made = 1
    /\ Cardinality(sinkListeners) = 1
    /\ Cardinality(notified) = 2
    /\ notified = Attached
    /\ \E s \in VStreams : vstream[s] = "collected"

\* ---------------------------------------------------------------------------
\* formatters: formatArgs (plain text) and argsToHtml (HTML)
\* ---------------------------------------------------------------------------
\* A text is a sequence of elements.  An element of one character is that
\* character; a longer element is a piece the code writes as one literal
\* (a tag, an entity) or an SGR escape sequence.

\* The SGR sequences circularToString puts around a string.
Green == "ESC[32m"
Reset == "ESC[0m"

\* The span ansi_up opens for text in a foreground colour.
ColourSpan(fg) == "<span style=\"color:rgb(0,187,0)\">"

\* str.replaceAll(pat, rep): left to right, matches do not overlap.
RECURSIVE ReplaceAll(_, _, _)
ReplaceAll(str, pat, rep) ==
    IF Len(str) < Len(pat) THEN str
    ELSE IF SubSeq(str, 1, Len(pat)) = pat
         THEN rep \o ReplaceAll(SubSeq(str, Len(pat) + 1, Len(str)), pat, rep)
         ELSE <<Head(str)>> \o ReplaceAll(Tail(str), pat, rep)

\* escapeHtml(str)
escapeHtml(str) ==
    ReplaceAll(ReplaceAll(ReplaceAll(ReplaceAll(str, <<"&">>, <<"&amp;">>),
                                     <<"\"">>, <<"&quot;">>),
                          <<"<">>, <<"&lt;">>),
               <<">">>, <<"&gt;">>)

\* safeString(arg) of a string: String(arg).
safeString(arg) == arg

\* circularToString(arg) of a string: the quoted string in green.
circularToString(arg) == <<Green, "'">> \o arg \o <<"'", Reset>>

\* JSON.stringify of a string: quoted, with the inner quotes escaped.
JsonStringify(arg) == <<"\"">> \o ReplaceAll(arg, <<"\"">>, <<"\\", "\"">>) \o <<"\"">>

\* The text ansi_up writes for the characters of a text packet.
EscapeTxtForHtml(txt) ==
    [k \in 1..Len(txt) |->
        CASE txt[k] = "&"  -> "&amp;"
          [] txt[k] = "<"  -> "&lt;"
          [] txt[k] = ">"  -> "&gt;"
          [] txt[k] = "\"" -> "&quot;"
          [] txt[k] = "'"  -> "&#x27;"
          [] OTHER         -> txt[k]]

IsSgr(e) == e \in {Green, Reset}

\* The length of the text packet at the head of txt.
RECURSIVE PacketLen(_)
PacketLen(txt) ==
    IF txt = <<>> \/ IsSgr(Head(txt)) THEN 0 ELSE 1 + PacketLen(Tail(txt))

\* ansi_up over txt with the foreground colour fg in force.
RECURSIVE AnsiUp(_, _)
AnsiUp(txt, fg) ==
    IF txt = <<>> THEN <<>>
    ELSE IF IsSgr(Head(txt))
         THEN AnsiUp(Tail(txt), IF Head(txt) = Reset THEN None ELSE Head(txt))
         ELSE LET n == PacketLen(txt)
                  packet == EscapeTxtForHtml(SubSeq(txt, 1, n))
              IN  (IF fg = None THEN packet
                   ELSE <<ColourSpan(fg)>> \o packet \o <<"</span>">>)
                  \o AnsiUp(SubSeq(txt, n + 1, Len(txt)), fg)

\* ansi_up.ansi_to_html(txt); every text here ends with the colour reset.
ansi_to_html(txt) == AnsiUp(txt, None)

\* The leading decimal digits of a text.
Digits == {"0", "1", "2", "3", "4", "5", "6", "7", "8", "9"}
RECURSIVE LeadingDigits(_)
LeadingDigits(txt) ==
    IF txt = <<>> \/ Head(txt) \notin Digits THEN <<>>
    ELSE <<Head(txt)>> \o LeadingDigits(Tail(txt))

\* String(parseInt(str)) of an unsigned text (parseFloat differs only after a '.').
ParseNumber(str) ==
    IF LeadingDigits(str) = <<>> THEN <<"N", "a", "N">> ELSE LeadingDigits(str)

\* list.join(' ')
RECURSIVE Join(_)
Join(list) ==
    IF list = <<>> THEN <<>>
    ELSE IF Len(list) = 1 THEN list[1]
    ELSE list[1] \o <<" ">> \o Join(Tail(list))

Whitespace == {" ", "\n", "\t"}

RECURSIVE TrimStart(_)
TrimStart(str) ==
    IF str # <<>> /\ Head(str) \in Whitespace THEN TrimStart(Tail(str)) ELSE str

RECURSIVE TrimEnd(_)
TrimEnd(str) ==
    IF str # <<>> /\ str[Len(str)] \in Whitespace
    THEN TrimEnd(SubSeq(str, 1, Len(str) - 1)) ELSE str

\* str.trim()
Trim(str) == TrimEnd(TrimStart(str))

\* argToHtml(arg) of a string.
argToHtml(arg) == ansi_to_html(circularToString(arg))

\* An argsToHtml that drops a specifier which has no argument left.
UnsuppliedDropped(match) == <<>>

\* if (argIndex >= args.length): the specifier stays as it is written.
Unsupplied(match) == match

\* A '%c' whose style is written unescaped.
StyleSpanUnescaped(arg) ==
    <<"</span>", "<span style=\"">> \o safeString(arg) \o <<"\">">>

\* case '%c': `</span><span style="${escapeHtml(safeString(arg))}">`
StyleSpan(arg) ==
    <<"</span>", "<span style=\"">> \o escapeHtml(safeString(arg)) \o <<"\">">>

\* A '%s' of argsToHtml that inserts the argument as it is.
HtmlStringRaw(arg) == safeString(arg)

\* case '%s' of argsToHtml
HtmlString(arg) == ansi_to_html(safeString(arg))

\* An argsToHtml whose '%c' opens the next container without closing the one
\* before.
HtmlSubstituteNeverCloses(letter, arg) ==
    CASE letter = "c"          -> Tail(StyleSpan(arg))
      [] letter = "s"          -> HtmlString(arg)
      [] letter \in {"d", "i"} -> ParseNumber(safeString(arg))
      [] letter = "f"          -> ParseNumber(safeString(arg))
      [] letter \in {"o", "O"} -> ansi_to_html(circularToString(arg))
      [] letter = "j"          -> ansi_to_html(JsonStringify(arg))

\* The switch of argsToHtml: what replaces the specifier that consumes arg.
HtmlSubstitute(letter, arg) ==
    CASE letter = "c"          -> StyleSpan(arg)
      [] letter = "s"          -> HtmlString(arg)
      [] letter \in {"d", "i"} -> ParseNumber(safeString(arg))
      [] letter = "f"          -> ParseNumber(safeString(arg))
      [] letter \in {"o", "O"} -> ansi_to_html(circularToString(arg))
      [] letter = "j"          -> ansi_to_html(JsonStringify(arg))

\* /%[%Ocdfijos]/g
HtmlSpecifiers == {"%", "O", "c", "d", "f", "i", "j", "o", "s"}

\* html.replace(regex, ...) of argsToHtml from argument argIndex on: the new
\* text, the index of the first argument left, and whether a '%c' was consumed.
RECURSIVE HtmlReplace(_, _, _)
HtmlReplace(html, args, argIndex) ==
    IF html = <<>> THEN [out |-> <<>>, argIndex |-> argIndex, hasStyle |-> FALSE]
    ELSE IF Len(html) >= 2 /\ html[1] = "%" /\ html[2] \in HtmlSpecifiers
    THEN LET rest == SubSeq(html, 3, Len(html))
         IN  IF html[2] = "%"
             THEN LET r == HtmlReplace(rest, args, argIndex)
                  IN  [r EXCEPT !.out = <<"%">> \o @]
             ELSE IF argIndex > Len(args)
             THEN LET r == HtmlReplace(rest, args, argIndex)
                  IN  [r EXCEPT !.out = Unsupplied(<<"%", html[2]>>) \o @]
             ELSE LET r == HtmlReplace(rest, args, argIndex + 1)
                  IN  [out      |-> HtmlSubstitute(html[2], args[argIndex]) \o r.out,
                       argIndex |-> r.argIndex,
                       hasStyle |-> r.hasStyle \/ html[2] = "c"]
    ELSE LET r == HtmlReplace(Tail(html), args, argIndex)
         IN  [r EXCEPT !.out = <<Head(html)>> \o @]

\* A replaceTable without entries.
ReplaceTableEmpty(html) == html

\* The two entries of replaceTable, applied in their order.
ReplaceTable(html) ==
    ReplaceAll(ReplaceAll(html, <<"<span style=\"", "\">">>, <<"<span>">>),
               <<"<span>", "</span>">>, <<>>)

\* argsToHtml(args) for a list of strings (the first one is the format).
argsToHtml(args) ==
    IF Len(args) = 0 THEN <<>>
    ELSE LET r       == HtmlReplace(ansi_to_html(args[1]), args, 2)
             wrapped == IF r.hasStyle THEN <<"<span>">> \o r.out \o <<"</span>">>
                        ELSE r.out
             left    == [k \in 1..(Len(args) + 1 - r.argIndex) |->
                            argToHtml(args[r.argIndex + k - 1])]
             html    == ReplaceTable(wrapped) \o <<" ">> \o Join(left)
         IN  ReplaceAll(Trim(html), <<"\n">>, <<"<br/>", "\n">>)

\* A formatArgs whose '%c' appends its argument as '%s' does.
PlainSubstituteStyleShown(letter, arg) ==
    CASE letter \in {"c", "s"} -> arg
      [] letter \in {"d", "i"} -> ParseNumber(arg)
      [] letter = "f"          -> ParseNumber(arg)
      [] letter \in {"o", "O"} -> JsonStringify(arg)

\* The switch of formatArgs: what the specifier that consumes arg appends.
PlainSubstitute(letter, arg) ==
    CASE letter = "c"          -> <<>>
      [] letter = "s"          -> arg
      [] letter \in {"d", "i"} -> ParseNumber(arg)
      [] letter = "f"          -> ParseNumber(arg)
      [] letter \in {"o", "O"} -> JsonStringify(arg)

\* /%[sdifoOc%]/g
PlainSpecifiers == {"s", "d", "i", "f", "o", "O", "c", "%"}

\* The while loop of formatArgs over the rest of the format, and the slice
\* after the last match: the text appended and the first argument left.
RECURSIVE PlainReplace(_, _, _)
PlainReplace(format, args, argIndex) ==
    IF format = <<>> THEN [out |-> <<>>, argIndex |-> argIndex]
    ELSE IF Len(format) >= 2 /\ format[1] = "%" /\ format[2] \in PlainSpecifiers
    THEN LET rest == SubSeq(format, 3, Len(format))
         IN  IF format[2] = "%"
             THEN LET r == PlainReplace(rest, args, argIndex)
                  IN  [r EXCEPT !.out = <<"%">> \o @]
             ELSE IF argIndex > Len(args)
             THEN LET r == PlainReplace(rest, args, argIndex)
                  IN  [r EXCEPT !.out = Unsupplied(<<"%", format[2]>>) \o @]
             ELSE LET r == PlainReplace(rest, args, argIndex + 1)
                  IN  [r EXCEPT !.out = PlainSubstitute(format[2], args[argIndex]) \o @]
    ELSE LET r == PlainReplace(Tail(format), args, argIndex)
         IN  [r EXCEPT !.out = <<Head(format)>> \o @]

\* A last loop that ends without appending the arguments.
PlainRestSwallowed(output, args, argIndex) == output

\* The last loop of formatArgs: the arguments no specifier consumed.
RECURSIVE PlainRest(_, _, _)
PlainRest(output, args, argIndex) ==
    IF argIndex > Len(args) THEN output
    ELSE PlainRest((IF output # <<>> THEN output \o <<" ">> ELSE output)
                       \o args[argIndex],
                   args, argIndex + 1)

\* formatArgs(args) for a list of strings (the first one is the format).
formatArgs(args) ==
    IF Len(args) = 0 THEN <<>>
    ELSE LET r == PlainReplace(args[1], args, 2)
         IN  PlainRest(r.out, args, r.argIndex)

\* The pieces the formats of the calls are made of.
MaxPieces == 3
FormatPieces ==
    {<<"%", "s">>, <<"%", "c">>, <<"%", "d">>, <<"%", "o">>, <<"%", "%">>,
     <<"%">>, <<"<">>, <<"\"">>}

RECURSIVE Concat(_)
Concat(list) == IF list = <<>> THEN <<>> ELSE Head(list) \o Concat(Tail(list))

Formats == {Concat(l) : l \in UNION {[1..n -> FormatPieces] : n \in 0..MaxPieces}}

\* The texts passed after the format: none, the payload of an injection, markup
\* characters, and a number followed by markup.
TextValues == {<<>>, <<"\"", ">">>, <<"<", "&">>, <<"7", "<">>}

FormatCalls ==
    {<<>>} \cup {<<f>> \o r : f \in Formats,
                              r \in UNION {[1..n -> TextValues] : n \in 0..2}}

InitFormatAny ==
    /\ InitCore
    /\ targetStream = [isTTY |-> TRUE, hasOn |-> TRUE, hasOff |-> TRUE]
    /\ InitStreams
    /\ InitKinds
    /\ InitGraph
    /\ InitBase
    /\ fmtArgs \in FormatCalls
    /\ fmtPlain = Unformatted
    /\ fmtHtml = Unformatted

\* this.outputs += formatArgs(args) + '\n'
ApplyFormatArgs ==
    /\ fmtPlain = Unformatted
    /\ fmtPlain' = formatArgs(fmtArgs)
    /\ UNCHANGED <<exceptFormat, fmtArgs, fmtHtml>>

\* this.outputsHtml += argsToHtml(args) + '<br/>\n'
ApplyArgsToHtml ==
    /\ fmtPlain # Unformatted
    /\ fmtHtml = Unformatted
    /\ fmtHtml' = argsToHtml(fmtArgs)
    /\ UNCHANGED <<exceptFormat, fmtArgs, fmtPlain>>

NextFormat ==
    \/ ApplyFormatArgs
    \/ ApplyArgsToHtml

SpecFormat == InitFormatAny /\ [][NextFormat]_vars

\* ---------------------------------------------------------------------------
\* SpecFormat: properties
\* ---------------------------------------------------------------------------

\* The characters that have a meaning in markup, and how they are written as text.
MarkupChars == {"&", "\"", "<", ">"}
Entities == {"&amp;", "&quot;", "&lt;", "&gt;", "&#x27;"}
Entity(c) ==
    CASE c = "&"  -> "&amp;"
      [] c = "\"" -> "&quot;"
      [] c = "<"  -> "&lt;"
      [] c = ">"  -> "&gt;"
      [] OTHER    -> c
AsText(txt) == [k \in 1..Len(txt) |-> Entity(txt[k])]

\* The tags the formatter writes.
Tags == {"<span>", "</span>", "<span style=\"", "\">", "<br/>", ColourSpan(Green)}

\* The arguments in the order the specifiers of the format consume them, each
\* with its specifier letter and its position in the call.
RECURSIVE ConsumedBy(_, _, _, _)
ConsumedBy(format, args, argIndex, specifiers) ==
    IF Len(format) < 2 \/ argIndex > Len(args) THEN <<>>
    ELSE IF format[1] = "%" /\ format[2] \in specifiers
    THEN IF format[2] = "%"
         THEN ConsumedBy(SubSeq(format, 3, Len(format)), args, argIndex, specifiers)
         ELSE <<[letter |-> format[2], at |-> argIndex]>>
              \o ConsumedBy(SubSeq(format, 3, Len(format)), args, argIndex + 1, specifiers)
    ELSE ConsumedBy(Tail(format), args, argIndex, specifiers)

\* The positions of the style arguments of the call, in order.
StylePositions ==
    LET used == ConsumedBy(fmtArgs[1], fmtArgs, 2, HtmlSpecifiers)
        IsStyle(u) == u.letter = "c"
        styles == SelectSeq(used, IsStyle)
    IN  [k \in 1..Len(styles) |-> styles[k].at]

\* The length of the attribute value at the head of html: it ends at the
\* closing quote, whoever wrote it.
RECURSIVE ValueLen(_)
ValueLen(html) ==
    IF html = <<>> \/ Head(html) \in {"\">", "\""} THEN 0 ELSE 1 + ValueLen(Tail(html))

\* The values of the style attributes of html, in order.
RECURSIVE StyleValues(_)
StyleValues(html) ==
    IF html = <<>> THEN <<>>
    ELSE IF Head(html) = "<span style=\""
    THEN <<SubSeq(html, 2, 1 + ValueLen(Tail(html)))>> \o StyleValues(Tail(html))
    ELSE StyleValues(Tail(html))

\* html with the values of its style attributes taken out.
RECURSIVE OutsideStyles(_)
OutsideStyles(html) ==
    IF html = <<>> THEN <<>>
    ELSE IF Head(html) = "<span style=\""
    THEN <<Head(html)>>
         \o OutsideStyles(SubSeq(html, 2 + ValueLen(Tail(html)), Len(html)))
    ELSE <<Head(html)>> \o OutsideStyles(Tail(html))

\* The call with every style argument that is not empty replaced by an
\* unrelated style.
OtherStyles ==
    LET at == {StylePositions[k] : k \in 1..Len(StylePositions)}
    IN  [k \in 1..Len(fmtArgs) |->
            IF k \in at /\ fmtArgs[k] # <<>> THEN <<"x">> ELSE fmtArgs[k]]

IsNotEmpty(txt) == txt # <<>>

Formatted == fmtArgs # <<>> /\ fmtPlain # Unformatted /\ fmtHtml # Unformatted

\* C18 (as stated): the HTML of a call has exactly one style-bearing container
\* per consumed '%c', whatever the style argument is.
C18_OneStyledSpanPerStyle ==
    Formatted => Len(StyleValues(fmtHtml)) = Len(StylePositions)

\* C18 (amended): the HTML of a call has exactly one style-bearing container
\* per consumed '%c' whose style argument is not empty (an empty style opens a
\* container without a style attribute); the value of each style attribute is
\* the argument written as text, so it holds no quote, angle bracket, bare
\* ampersand or tag, and outside the attribute values the HTML does not depend
\* on the style arguments.
C18_StyleContained ==
    Formatted =>
        LET given == SelectSeq([k \in 1..Len(StylePositions) |->
                                    fmtArgs[StylePositions[k]]], IsNotEmpty)
            values == StyleValues(fmtHtml)
        IN  /\ Len(values) = Len(given)
            /\ \A k \in 1..Len(values) :
                  /\ values[k] = AsText(given[k])
                  /\ \A j \in 1..Len(values[k]) : values[k][j] \notin MarkupChars \cup Tags
            /\ OutsideStyles(fmtHtml) = OutsideStyles(argsToHtml(OtherStyles))

\* The injection payload as the style of a '%c' in front of markup text.
C18_Witness ==
    /\ fmtArgs = <<<<"%", "c", "<">>, <<"\"", ">">>>>
    /\ fmtHtml = <<"<span style=\"", "&quot;", "&gt;", "\">", "&lt;", "</span>">>

RECURSIVE AsWritten(_, _, _)
AsWritten(format, supplied, specifiers) ==
    IF format = <<>> THEN <<>>
    ELSE IF Len(format) >= 2 /\ format[1] = "%" /\ format[2] \in specifiers
    THEN LET rest == SubSeq(format, 3, Len(format))
         IN  IF format[2] = "%" THEN <<"P">> \o AsWritten(rest, supplied, specifiers)
             ELSE IF supplied = 0
             THEN <<"P", format[2]>> \o AsWritten(rest, supplied, specifiers)
             ELSE <<"%", format[2]>> \o AsWritten(rest, supplied - 1, specifiers)
    ELSE <<Head(format)>> \o AsWritten(Tail(format), supplied, specifiers)

Percent(txt) == [k \in 1..Len(txt) |-> IF txt[k] = "P" THEN "%" ELSE txt[k]]

\* The call with its format written by AsWritten.
Written(specifiers) ==
    <<AsWritten(fmtArgs[1], Len(fmtArgs) - 1, specifiers)>> \o Tail(fmtArgs)

ConsumedPlain == Len(ConsumedBy(fmtArgs[1], fmtArgs, 2, PlainSpecifiers))
ConsumedHtml == Len(ConsumedBy(fmtArgs[1], fmtArgs, 2, HtmlSpecifiers))

\* The format with the k-th consuming specifier replaced by what it makes of
\* the k-th of the arguments in used, '%%' by a percent sign, and a specifier
\* without argument left as it is.
RECURSIVE Templated(_, _)
Templated(format, used) ==
    IF format = <<>> THEN <<>>
    ELSE IF Len(format) >= 2 /\ format[1] = "%" /\ format[2] \in PlainSpecifiers
    THEN LET rest == SubSeq(format, 3, Len(format))
         IN  IF format[2] = "%" THEN <<"%">> \o Templated(rest, used)
             ELSE IF used = <<>> THEN <<"%", format[2]>> \o Templated(rest, used)
             ELSE PlainSubstitute(format[2], Head(used)) \o Templated(rest, Tail(used))
    ELSE <<Head(format)>> \o Templated(Tail(format), used)

\* Every text of list after a space.
RECURSIVE EachAfterSpace(_)
EachAfterSpace(list) ==
    IF list = <<>> THEN <<>> ELSE <<" ">> \o Head(list) \o EachAfterSpace(Tail(list))

\* Every text of list after a space, but for the texts that would begin the output.
RECURSIVE AfterSpaceUnlessFirst(_, _)
AfterSpaceUnlessFirst(output, list) ==
    IF list = <<>> THEN output
    ELSE AfterSpaceUnlessFirst((IF output = <<>> THEN <<>> ELSE output \o <<" ">>)
                                   \o Head(list),
                               Tail(list))

\* A call that passes more arguments than its format consumes.
HasLeftovers == Formatted /\ Len(fmtArgs) - 1 > ConsumedPlain

Kinds == {"text", "symbol", "bare", "cyclic", "bareCyclic", "bigint", "error"}

\* Where the value stands in the call: consumed by a specifier of the format,
\* left over after the format, or passed as the only argument.
Places == {"s", "d", "i", "f", "o", "O", "c", "j", "left", "first"}

\* String(arg) throws a TypeError for an object without toString.
StringThrows(kind) == kind \in {"bare", "bareCyclic"}

\* parseInt(arg) and parseFloat(arg) convert their argument to a string
\* implicitly, which throws for a symbol and for an object without toString.
ParseThrows(kind) == kind \in {"symbol", "bare", "bareCyclic"}

\* JSON.stringify(arg) throws for a circular structure and for a BigInt.
JsonThrows(kind) == kind \in {"cyclic", "bareCyclic", "bigint"}

\* arg instanceof Object
InstanceofObject(kind) == kind \in {"cyclic", "error"}

\* arg instanceof Error && arg.stack
HasStack(kind) == kind = "error"

\* try { JSON.stringify(arg, null, '\t') } catch { String(arg) }
JsonOrStringThrows(kind) == JsonThrows(kind) /\ StringThrows(kind)

\* Whether formatArgs throws for a call that passes a value of this kind there.
formatArgsThrows(at, kind) ==
    CASE at = "first" ->
            IF kind = "text" \/ HasStack(kind) THEN FALSE ELSE JsonOrStringThrows(kind)
      [] at = "s" -> StringThrows(kind)
      [] at \in {"d", "i", "f"} -> ParseThrows(kind)
      [] at \in {"o", "O"} -> JsonOrStringThrows(kind)
      [] at = "c" -> FALSE
      [] at \in {"j", "left"} ->
            IF HasStack(kind) THEN FALSE
            ELSE IF InstanceofObject(kind) THEN JsonOrStringThrows(kind)
            ELSE StringThrows(kind)

\* safeString(arg) falls back from String to JSON.stringify to
\* Object.prototype.toString.call, which converts every value.
safeStringThrows(kind) == FALSE

\* circularToString(arg) converts no value implicitly.
circularToStringThrows(kind) == FALSE

\* Whether argsToHtml throws for a call that passes a value of this kind there.
argsToHtmlThrows(at, kind) ==
    CASE at \in {"s", "c", "d", "i", "f"} -> safeStringThrows(kind)
      [] at \in {"o", "O"} -> circularToStringThrows(kind)
      [] at = "j" -> JsonThrows(kind) /\ safeStringThrows(kind)
      [] at \in {"left", "first"} -> circularToStringThrows(kind)

\* The intercepted method called with such a value: on the browser it formats
\* the arguments itself, on node the plain text is written by node's Console.
MethodOutcome(call) ==
    LET thrown == /\ call.recordOutput
                  /\ \/ call.platform = "browser" /\ formatArgsThrows(call.at, call.kind)
                     \/ argsToHtmlThrows(call.at, call.kind)
    IN  [called |-> TRUE, thrown |-> thrown, recorded |-> call.recordOutput /\ ~thrown]

InitKindsAny ==
    /\ InitCore
    /\ targetStream = [isTTY |-> TRUE, hasOn |-> TRUE, hasOff |-> TRUE]
    /\ InitStreams
    /\ InitFormat
    /\ InitGraph
    /\ InitBase
    /\ kindCall \in [platform : Platforms, recordOutput : BOOLEAN, at : Places, kind : Kinds]
    /\ kindOutcome = NotCalled

\* instance.log(...) with the value at its place.
CallWithKind ==
    /\ kindOutcome = NotCalled
    /\ kindOutcome' = MethodOutcome(kindCall)
    /\ UNCHANGED <<exceptKinds, kindCall>>

NextKinds == CallWithKind

SpecKinds == InitKindsAny /\ [][NextKinds]_vars

\* ---------------------------------------------------------------------------
\* SpecKinds: properties
\* ---------------------------------------------------------------------------

\* C22: an intercepted logging call on a recording instance returns normally
\* and records a line, whatever the kind of the value passed and wherever it
\* stands in the call.
C22_NeverThrows ==
    (kindOutcome.called /\ kindCall.recordOutput) =>
        ~kindOutcome.thrown /\ kindOutcome.recorded

\* ---------------------------------------------------------------------------
\* circularToString: the scan pass and the format pass over a graph of objects
\* ---------------------------------------------------------------------------

\* The values of the keys of an object: at most two, each an object.
KeyLists ==
    {<<>>} \cup {<<x>> : x \in Objects} \cup {<<x, y>> : x \in Objects, y \in Objects}

Graphs == [Objects -> KeyLists]

\* const { depth = Infinity } = options
Infinity == 99
Depths == {0, 1, Infinity}

\* The calls the engine nests before it raises a RangeError.
StackLimit == 5

\* The pieces of the string: each is listed with the object it stands for.
RefPrefix(v, ids) == ids[v]
Opened(v, ids) == [t |-> "open", v |-> v, ref |-> RefPrefix(v, ids)]
Empty(v, ids) == [t |-> "empty", v |-> v, ref |-> RefPrefix(v, ids)]
Closed(v) == [t |-> "close", v |-> v, ref |-> 0]
Circular(v, ids) == [t |-> "circular", v |-> v, ref |-> ids[v]]
Cut(v) == [t |-> "cut", v |-> v, ref |-> 0]

\* A scan that does not look at walkStack.
OnWalkStackIgnored(v) == FALSE

\* walkStack.has(value)
OnWalkStack(v) == v \in walkStack

\* A refId that counts as set for every value.
FlaggedAlways(v) == TRUE

\* refId: circularIds.get(value) is an id (the ids start at 1).
Flagged(v) == circularIds[v] # 0

\* A format that renders a value again although it is being rendered.
BackReferenceNever(v) == FALSE

\* seen.has(value) && refId
BackReference(v) == v \in seenValues /\ Flagged(v)

InitGraphAny ==
    /\ InitCore
    /\ targetStream = [isTTY |-> TRUE, hasOn |-> TRUE, hasOff |-> TRUE]
    /\ InitStreams
    /\ InitFormat
    /\ InitKinds
    /\ InitBase
    /\ graph \in Graphs
    /\ depth \in Depths
    /\ phase = "scan"
    /\ frames = <<[v |-> Target, k |-> 1]>>
    /\ walkStack = {Target}
    /\ seenValues = {}
    /\ circularIds = [v \in Objects |-> 0]
    /\ idCounter = 1
    /\ rendered = <<>>

\* The frames with the next key of the innermost call taken.
KeyTaken == [frames EXCEPT ![Len(frames)].k = @ + 1]

\* scan(value[key]) for the next key of the innermost scan.
ScanKey ==
    /\ phase = "scan"
    /\ frames # <<>>
    /\ LET top == frames[Len(frames)]
       IN  /\ top.k <= Len(graph[top.v])
           /\ LET value == graph[top.v][top.k]
              IN  IF OnWalkStack(value)
                  THEN /\ IF circularIds[value] = 0
                          THEN /\ circularIds' = [circularIds EXCEPT ![value] = idCounter]
                               /\ idCounter' = idCounter + 1
                          ELSE UNCHANGED <<circularIds, idCounter>>
                       /\ frames' = KeyTaken
                       /\ UNCHANGED <<walkStack, phase>>
                  ELSE IF Len(frames) >= StackLimit
                  THEN /\ phase' = "raised"
                       /\ UNCHANGED <<frames, walkStack, circularIds, idCounter>>
                  ELSE /\ frames' = Append(KeyTaken, [v |-> value, k |-> 1])
                       /\ walkStack' = walkStack \cup {value}
                       /\ UNCHANGED <<phase, circularIds, idCounter>>
    /\ UNCHANGED <<exceptGraph, graph, depth, seenValues, rendered>>

\* The innermost scan has gone through its keys: walkStack.delete(value).
ScanLeave ==
    /\ phase = "scan"
    /\ frames # <<>>
    /\ LET top == frames[Len(frames)]
       IN  /\ top.k > Len(graph[top.v])
           /\ walkStack' = walkStack \ {top.v}
           /\ frames' = SubSeq(frames, 1, Len(frames) - 1)
    /\ UNCHANGED <<exceptGraph, graph, depth, phase, seenValues, circularIds,
                   idCounter, rendered>>

\* format(value, currentDepth) up to its first nested call, with the frames
\* of the callers given.
FormatValue(value, currentDepth, callers) ==
    IF BackReference(value)
    THEN /\ rendered' = Append(rendered, Circular(value, circularIds))
         /\ frames' = callers
         /\ phase' = IF callers = <<>> THEN "done" ELSE "format"
         /\ UNCHANGED seenValues
    ELSE IF currentDepth > depth
    THEN /\ rendered' = Append(rendered, Cut(value))
         /\ frames' = callers
         /\ phase' = IF callers = <<>> THEN "done" ELSE "format"
         /\ UNCHANGED seenValues
    ELSE IF graph[value] = <<>>
    THEN /\ seenValues' = seenValues \cup {value}
         /\ rendered' = Append(rendered, Empty(value, circularIds))
         /\ frames' = callers
         /\ phase' = IF callers = <<>> THEN "done" ELSE "format"
    ELSE IF Len(callers) >= StackLimit
    THEN /\ phase' = "raised"
         /\ UNCHANGED <<frames, seenValues, rendered>>
    ELSE /\ seenValues' = seenValues \cup {value}
         /\ rendered' = Append(rendered, Opened(value, circularIds))
         /\ frames' = Append(callers, [v |-> value, k |-> 1])
         /\ phase' = "format"

\* scan(target) has returned: format(target, 0).
FormatTarget ==
    /\ phase = "scan"
    /\ frames = <<>>
    /\ FormatValue(Target, 0, <<>>)
    /\ UNCHANGED <<exceptGraph, graph, depth, walkStack, circularIds, idCounter>>

\* format(value[key], currentDepth + 1) for the next key of the innermost format.
FormatKey ==
    /\ phase = "format"
    /\ LET top == frames[Len(frames)]
       IN  /\ top.k <= Len(graph[top.v])
           /\ FormatValue(graph[top.v][top.k], Len(frames), KeyTaken)
    /\ UNCHANGED <<exceptGraph, graph, depth, walkStack, circularIds, idCounter>>

\* The innermost format has gone through its keys: seen.delete(value) and return.
FormatLeave ==
    /\ phase = "format"
    /\ LET top == frames[Len(frames)]
       IN  /\ top.k > Len(graph[top.v])
           /\ seenValues' = seenValues \ {top.v}
           /\ rendered' = Append(rendered, Closed(top.v))
           /\ frames' = SubSeq(frames, 1, Len(frames) - 1)
           /\ phase' = IF Len(frames) = 1 THEN "done" ELSE "format"
    /\ UNCHANGED <<exceptGraph, graph, depth, walkStack, circularIds, idCounter>>

NextGraph ==
    \/ ScanKey
    \/ ScanLeave
    \/ FormatTarget
    \/ FormatKey
    \/ FormatLeave

SpecGraph == InitGraphAny /\ [][NextGraph]_vars

\* The engine keeps running a call that has a next step.
SpecGraphFair == SpecGraph /\ WF_vars(NextGraph)

\* ---------------------------------------------------------------------------
\* SpecGraph: properties
\* ---------------------------------------------------------------------------

\* The pieces of the string that are back-reference markers, and those that
\* open an object under a <ref *n> prefix.
Markers == SelectSeq(rendered, LAMBDA e : e.t = "circular")
Prefixed == SelectSeq(rendered, LAMBDA e : e.t \in {"open", "empty"} /\ e.ref # 0)

\* C23: for every graph of objects, with self-references and mutual cycles,
\* and every depth option, the scan pass and the format pass come to their end
\* and the string is returned: the conversion is never left running and never
\* ends in an exception.
C23_Terminates == <>(phase = "done")

\* A returned string for a target whose two objects below refer to each other.
C23_Witness ==
    /\ phase = "done"
    /\ graph = [v \in Objects |->
                   IF v = "r" THEN <<"a", "b">> ELSE IF v = "a" THEN <<"b">> ELSE <<"a">>]
    /\ depth = Infinity
    /\ Len(Markers) = 2

\* How many renderings of v are open before piece j of the string: v is an
\* ancestor of piece j when there is one.
OpenBefore(v, j) ==
    Cardinality({i \in 1..(j - 1) : rendered[i].t = "open" /\ rendered[i].v = v})
    - Cardinality({i \in 1..(j - 1) : rendered[i].t = "close" /\ rendered[i].v = v})

\* The piece that opens the rendering of v which encloses piece j: the last
\* one before j that opens v.
Enclosing(v, j) ==
    CHOOSE i \in 1..(j - 1) :
        /\ rendered[i].t = "open" /\ rendered[i].v = v
        /\ \A h \in (i + 1)..(j - 1) : ~(rendered[h].t = "open" /\ rendered[h].v = v)

\* C24: a piece of the string is a back-reference marker exactly when its
\* value is an ancestor on the rendering path; the number of the marker is
\* the number in the <ref *n> prefix of the enclosing rendering of that value;
\* for an object whose only key is the object itself the string has exactly
\* one marker and one prefix, both with number 1.
C24_MarkerAtAncestor ==
    /\ \A j \in 1..Len(rendered) :
          LET e == rendered[j]
          IN  /\ e.t \in {"open", "empty", "cut", "circular"} =>
                    (e.t = "circular" <=> OpenBefore(e.v, j) > 0)
              /\ e.t = "circular" =>
                    /\ e.ref # 0
                    /\ rendered[Enclosing(e.v, j)].ref = e.ref
    /\ (phase = "done" /\ graph[Target] = <<Target>>) =>
          /\ Len(Markers) = 1 /\ Markers[1].ref = 1
          /\ Len(Prefixed) = 1 /\ Prefixed[1].ref = 1

\* The string of an object o with o.self = o.
C24_Witness ==
    /\ graph[Target] = <<Target>>
    /\ phase = "done"
    /\ rendered = <<[t |-> "open", v |-> Target, ref |-> 1],
                    [t |-> "circular", v |-> Target, ref |-> 1],
                    [t |-> "close", v |-> Target, ref |-> 0]>>

\* The objects reached from v by one key or more.
RECURSIVE ReachedFrom(_, _)
ReachedFrom(found, n) ==
    IF n = 0 THEN found
    ELSE ReachedFrom(found \cup UNION {{graph[w][k] : k \in 1..Len(graph[w])} : w \in found},
                     n - 1)
Below(v) ==
    ReachedFrom({graph[v][k] : k \in 1..Len(graph[v])}, Cardinality(Objects))

\* v lies on no cycle: it is never its own ancestor.
Acyclic(v) == v \notin Below(v)

\* C29: an object that lies on no cycle carries no back-reference marker and
\* no <ref *n> prefix at any of its occurrences, and without a depth limit it
\* is rendered in full at each of them, also when siblings share it; an
\* object reached again below itself is rendered as a back-reference.
C29_SharedInFull ==
    \A j \in 1..Len(rendered) :
        LET e == rendered[j]
        IN  /\ (e.t # "close" /\ Acyclic(e.v)) =>
                  /\ e.t # "circular"
                  /\ e.ref = 0
                  /\ depth = Infinity => e.t \in {"open", "empty"}
            /\ (e.t # "close" /\ OpenBefore(e.v, j) > 0) => e.t = "circular"

\* Two keys of the target hold the same object, whose key holds an empty
\* object: both are rendered twice, in full.
C29_Witness ==
    /\ graph = [v \in Objects |->
                   IF v = "r" THEN <<"a", "a">> ELSE IF v = "a" THEN <<"b">> ELSE <<>>]
    /\ depth = Infinity
    /\ phase = "done"
    /\ rendered = <<[t |-> "open", v |-> "r", ref |-> 0],
                    [t |-> "open", v |-> "a", ref |-> 0],
                    [t |-> "empty", v |-> "b", ref |-> 0],
                    [t |-> "close", v |-> "a", ref |-> 0],
                    [t |-> "open", v |-> "a", ref |-> 0],
                    [t |-> "empty", v |-> "b", ref |-> 0],
                    [t |-> "close", v |-> "a", ref |-> 0],
                    [t |-> "close", v |-> "r", ref |-> 0]>>

\* ---------------------------------------------------------------------------
\* SpecFormat: the containers of styled output
\* ---------------------------------------------------------------------------

\* The style of a container that has no style attribute.
NoStyle == <<None>>

\* The length of the content of the container opened before html, nested
\* containers included: it ends at the closing tag of the container.
RECURSIVE ContentLen(_, _)
ContentLen(html, nested) ==
    IF html = <<>> THEN 0
    ELSE IF Head(html) = "</span>"
         THEN IF nested = 0 THEN 0 ELSE 1 + ContentLen(Tail(html), nested - 1)
    ELSE IF Head(html) \in {"<span>", "<span style=\"", ColourSpan(Green)}
         THEN 1 + ContentLen(Tail(html), nested + 1)
    ELSE 1 + ContentLen(Tail(html), nested)

\* html read as a row of containers: the style and the content of each, or
\* one entry "text" when something stands outside of a container.
RECURSIVE Containers(_)
Containers(html) ==
    IF html = <<>> THEN <<>>
    ELSE IF Head(html) = "<span>"
    THEN LET n == ContentLen(Tail(html), 0)
         IN  <<[style |-> NoStyle, text |-> SubSeq(html, 2, 1 + n)]>>
             \o Containers(SubSeq(html, 3 + n, Len(html)))
    ELSE IF Head(html) = "<span style=\""
    THEN LET m == ValueLen(Tail(html))
             n == ContentLen(SubSeq(html, 3 + m, Len(html)), 0)
         IN  <<[style |-> SubSeq(html, 2, 1 + m), text |-> SubSeq(html, 3 + m, 2 + m + n)]>>
             \o Containers(SubSeq(html, 4 + m + n, Len(html)))
    ELSE <<[style |-> <<"text">>, text |-> html]>>

\* The template cut at its consumed '%c': the style argument in front of each
\* part (NoStyle for the part before the first '%c') and the part's HTML.
RECURSIVE StyledParts(_, _, _, _)
StyledParts(html, args, argIndex, part) ==
    IF html = <<>> THEN <<part>>
    ELSE IF Len(html) >= 2 /\ html[1] = "%" /\ html[2] \in HtmlSpecifiers
    THEN LET rest == SubSeq(html, 3, Len(html))
         IN  IF html[2] = "%"
             THEN StyledParts(rest, args, argIndex, [part EXCEPT !.text = @ \o <<"%">>])
             ELSE IF argIndex > Len(args)
             THEN StyledParts(rest, args, argIndex,
                              [part EXCEPT !.text = @ \o <<"%", html[2]>>])
             ELSE IF html[2] = "c"
             THEN <<part>> \o StyledParts(rest, args, argIndex + 1,
                                          [style |-> AsText(args[argIndex]), text |-> <<>>])
             ELSE StyledParts(rest, args, argIndex + 1,
                              [part EXCEPT !.text = @ \o HtmlSubstitute(html[2], args[argIndex])])
    ELSE StyledParts(Tail(html), args, argIndex, [part EXCEPT !.text = @ \o <<Head(html)>>])

Parts == StyledParts(AsText(fmtArgs[1]), fmtArgs, 2, [style |-> NoStyle, text |-> <<>>])

\* A call whose format consumes every argument, one of them by '%c'.
Styled == Formatted /\ Len(fmtArgs) - 1 = ConsumedHtml /\ Len(StylePositions) > 0

\* C25 (as stated): the text after each consumed '%c' is enclosed in one
\* container whose style attribute is the escaped style argument, and no empty
\* container stands before the first one.
C25_EveryPartStyled ==
    Styled =>
        LET Vacuous(p) == p.style \in {NoStyle, <<>>} /\ p.text = <<>>
            Stated(p) == ~Vacuous(p)
        IN  Containers(fmtHtml) = SelectSeq(Parts, Stated)

\* C25 (amended): the text after each consumed '%c' is enclosed in exactly
\* one container; its style attribute is the escaped style argument when the
\* argument is not empty, and it has no style attribute when the argument is
\* empty; a container without style attribute and without text is not written,
\* so no empty container stands before a '%c' that begins the template.
C25_PartsInContainers ==
    Styled =>
        LET Unstyled(p) == IF p.style = <<>> THEN [p EXCEPT !.style = NoStyle] ELSE p
            Kept(p) == ~(p.style = NoStyle /\ p.text = <<>>)
            parts == [k \in 1..Len(Parts) |-> Unstyled(Parts[k])]
        IN  Containers(fmtHtml) = SelectSeq(parts, Kept)

\* A style in front of the whole template: one container, nothing before it.
C25_Witness ==
    /\ fmtArgs = <<<<"%", "c", "\"">>, <<"7", "<">>>>
    /\ fmtHtml = <<"<span style=\"", "7", "&lt;", "\">", "&quot;", "</span>">>

\* ---------------------------------------------------------------------------
\* SpecFormat: '%c' in plain text, balance of the containers
\* ---------------------------------------------------------------------------

\* The call without the '%c' specifiers that consume an argument and without
\* the arguments they consume: the format and the arguments after it.
RECURSIVE WithoutStyles(_, _, _)
WithoutStyles(format, args, argIndex) ==
    IF format = <<>>
    THEN [format |-> <<>>, args |-> SubSeq(args, argIndex, Len(args))]
    ELSE IF Len(format) >= 2 /\ format[1] = "%" /\ format[2] \in PlainSpecifiers
    THEN LET rest == SubSeq(format, 3, Len(format))
             spec == <<"%", format[2]>>
         IN  IF format[2] = "%" \/ argIndex > Len(args)
             THEN LET r == WithoutStyles(rest, args, argIndex)
                  IN  [r EXCEPT !.format = spec \o @]
             ELSE IF format[2] = "c"
             THEN WithoutStyles(rest, args, argIndex + 1)
             ELSE LET r == WithoutStyles(rest, args, argIndex + 1)
                  IN  [format |-> spec \o r.format,
                       args   |-> <<args[argIndex]>> \o r.args]
    ELSE LET r == WithoutStyles(Tail(format), args, argIndex)
         IN  [r EXCEPT !.format = <<Head(format)>> \o @]

\* The number of '%c' specifiers of the call that consume an argument.
StylesPlain ==
    LET used == ConsumedBy(fmtArgs[1], fmtArgs, 2, PlainSpecifiers)
        IsStyle(u) == u.letter = "c"
    IN  Len(SelectSeq(used, IsStyle))

\* C32: in plain text a '%c' that finds an argument consumes exactly that one
\* argument and appends nothing: the text of the call is the text of the same
\* call with every such '%c' and its argument taken out, so every later
\* specifier and the leftovers get the arguments they would get after any
\* other consuming specifier.
C32_StyleDiscarded ==
    Formatted =>
        LET w == WithoutStyles(fmtArgs[1], fmtArgs, 2)
        IN  /\ Len(w.args) = Len(fmtArgs) - 1 - StylesPlain
            /\ fmtPlain = formatArgs(<<w.format>> \o w.args)

\* '%c%s' with a style and a text: the plain text is the text alone.
C32_Witness ==
    /\ fmtArgs = <<<<"%", "c", "%", "s">>, <<"7", "<">>, <<"<", "&">>>>
    /\ fmtPlain = <<"<", "&">>
    /\ fmtHtml # Unformatted

\* The tags that open a container.
Openers == {"<span>", "<span style=\"", ColourSpan(Green)}

\* The number of containers open at the end of html, starting with open ones;
\* -1 when a closing tag stands where no container is open.
RECURSIVE Nesting(_, _)
Nesting(html, open) ==
    IF html = <<>> THEN open
    ELSE IF Head(html) \in Openers THEN Nesting(Tail(html), open + 1)
    ELSE IF Head(html) = "</span>"
         THEN IF open = 0 THEN -1 ELSE Nesting(Tail(html), open - 1)
    ELSE Nesting(Tail(html), open)

\* C35: the container tags of the HTML of a call are balanced, whatever the
\* number of consumed '%c' and whether their styles are empty: every closing
\* tag closes a container opened before it and no container stays open, also
\* after replaceTable took out the empty containers.
C35_ContainersBalanced ==
    Formatted => Nesting(fmtHtml, 0) = 0

\* Two consumed '%c', the first with an empty style: the empty container in
\* front is taken out, two containers remain.
C35_Witness ==
    /\ fmtArgs = <<<<"%", "c", "<", "%", "c">>, <<>>, <<"7", "<">>>>
    /\ fmtHtml = <<"<span>", "&lt;", "</span>",
                   "<span style=\"", "7", "&lt;", "\">", "</span>">>

\* ---------------------------------------------------------------------------
\* formatters applied to templates with white space and '%j'
\* ---------------------------------------------------------------------------

\* The pieces of these templates: a space, a newline, a markup character, a
\* specifier both formatters know and one only argsToHtml knows.
TemplatePieces == {<<" ">>, <<"\n">>, <<"<">>, <<"%", "s">>, <<"%", "j">>}

Templates == {Concat(l) : l \in UNION {[1..n -> TemplatePieces] : n \in 0..MaxPieces}}

TemplateValues == {<<"a">>, <<"<", "&">>}

TemplateCalls ==
    {<<f>> \o r : f \in Templates,
                  r \in UNION {[1..n -> TemplateValues] : n \in 0..2}}

InitTemplateAny ==
    /\ InitCore
    /\ targetStream = [isTTY |-> TRUE, hasOn |-> TRUE, hasOff |-> TRUE]
    /\ InitStreams
    /\ InitKinds
    /\ InitGraph
    /\ InitBase
    /\ fmtArgs \in TemplateCalls
    /\ fmtPlain = Unformatted
    /\ fmtHtml = Unformatted

SpecTemplate == InitTemplateAny /\ [][NextFormat]_vars

\* ---------------------------------------------------------------------------
\* SpecTemplate: properties
\* ---------------------------------------------------------------------------

\* The character an entity stands for.
Character(e) ==
    CASE e = "&amp;"  -> "&"
      [] e = "&quot;" -> "\""
      [] e = "&lt;"   -> "<"
      [] e = "&gt;"   -> ">"
      [] e = "&#x27;" -> "'"
      [] OTHER        -> e

\* The text of html: the tags and the attribute values left out, the entities
\* read as their characters.
RECURSIVE TextOf(_)
TextOf(html) ==
    IF html = <<>> THEN <<>>
    ELSE IF Head(html) = "<span style=\""
    THEN TextOf(SubSeq(html, 3 + ValueLen(Tail(html)), Len(html)))
    ELSE IF Head(html) \in Tags THEN TextOf(Tail(html))
    ELSE <<Character(Head(html))>> \o TextOf(Tail(html))

\* C26: plain-text formatting and HTML formatting of one call recognise the
\* same specifiers and bind the same arguments to them, and the text of the
\* HTML (tags taken out, entities read back) is the plain text; white space
\* at the ends of the message is left out of the comparison.
C26_SameReadingBothModes ==
    Formatted =>
        /\ ConsumedBy(fmtArgs[1], fmtArgs, 2, PlainSpecifiers)
              = ConsumedBy(fmtArgs[1], fmtArgs, 2, HtmlSpecifiers)
        /\ Trim(TextOf(fmtHtml)) = Trim(fmtPlain)

\* The template with '%%' and the specifiers that find no argument as the
\* text they stand for.
LiteralText == Percent(AsWritten(fmtArgs[1], 0, HtmlSpecifiers))

\* C30: the HTML of a call that passes only a template is the template's
\* literal text, escaped, every character at its place, the spaces and
\* newlines at both ends included, each newline after a line-break tag.
C30_LiteralTextKept ==
    (Formatted /\ Len(fmtArgs) = 1) =>
        fmtHtml = ReplaceAll(AsText(LiteralText), <<"\n">>, <<"<br/>", "\n">>)

\* ---------------------------------------------------------------------------
\* the base console of an instance constructed with or without the option
\* ---------------------------------------------------------------------------

\* Logging calls made per behaviour of SpecBase.
MaxLogs == 2

\* The base_console option of a constructor call: absent, originalConsole, or
\* another console that is no instance (with streams of its own).
GivenBases == {Absent} \cup Outside

\* A constructor that falls back to originalConsole on both platforms.
DefaultBaseOriginal(active) == "real"

\* options.base_console || consoleReflect() on node, where consoleReflect() is
\* the active instance or defaultConsole; options.base_console ||
\* originalConsole in the browser.
DefaultBase(active) ==
    IF platform = "node"
    THEN (IF active = None THEN "D" ELSE active)
    ELSE "real"

\* The buffers and the consoles outside, threaded through one logging call.
Reach == [captured |-> captured, delivered |-> delivered]

RECURSIVE StreamIn(_, _, _)
RECURSIVE MethodOn(_, _, _)

\* The write function of the VirtualStream of i: the chunk is recorded and
\* written to the target stream, which is the stream of the base console.
StreamIn(w, k, token) ==
    IF k \in Outside THEN [w EXCEPT !.delivered[k] = Append(@, token)]
    ELSE LET w1 == IF consoles[k].recordOutput
                   THEN [w EXCEPT !.captured[k].plain = Append(@, token)]
                   ELSE w
         IN  IF consoles[k].realConsoleOutput
             THEN StreamIn(w1, consoles[k].base, token)
             ELSE w1

\* console k's log(token): the method of a console outside, or the
\* intercepted method of an instance.
MethodOn(w, k, token) ==
    IF k \in Outside THEN [w EXCEPT !.delivered[k] = Append(@, token)]
    ELSE IF platform = "node"
    THEN LET w1 == IF consoles[k].recordOutput
                   THEN [w EXCEPT !.captured[k].html = Append(@, token)]
                   ELSE w
         IN  IF ~consoles[k].realConsoleOutput \/ consoles[k].recordOutput
             THEN StreamIn(w1, k, token)
             ELSE MethodOn(w1, consoles[k].base, token)
    ELSE LET w1 == IF consoles[k].recordOutput
                   THEN [w EXCEPT !.captured[k].plain = Append(@, token),
                                  !.captured[k].html = Append(@, token)]
                   ELSE w
         IN  IF consoles[k].realConsoleOutput
             THEN MethodOn(w1, consoles[k].base, token)
             ELSE w1

\* new VirtualConsole({recordOutput, realConsoleOutput[, base_console]}).
Construct(i, given, rec, real) ==
    /\ ~consoles[i].built
    /\ consoles' = [consoles EXCEPT ![i] =
          [built |-> TRUE, given |-> given, activeThen |-> activeConsole,
           base |-> IF given = Absent THEN DefaultBase(activeConsole) ELSE given,
           recordOutput |-> rec, realConsoleOutput |-> real]]
    /\ UNCHANGED <<exceptBase, activeConsole, captured, delivered, passed>>

\* i.hookAsyncContext(): instance i becomes the active instance.
Activate(i) ==
    /\ consoles[i].built
    /\ activeConsole # i
    /\ activeConsole' = i
    /\ UNCHANGED <<exceptBase, consoles, captured, delivered, passed>>

\* The run-scoped call that made an instance active has completed.
Deactivate ==
    /\ activeConsole # None
    /\ activeConsole' = None
    /\ UNCHANGED <<exceptBase, consoles, captured, delivered, passed>>

\* i.log(token), the token telling the calls apart.
LogOn(i) ==
    /\ consoles[i].built
    /\ Len(passed) < MaxLogs
    /\ LET token == Len(passed) + 1
           w == MethodOn(Reach, i, token)
       IN  /\ captured' = w.captured
           /\ delivered' = w.delivered
           /\ passed' = Append(passed, [by |-> i, token |-> token])
    /\ UNCHANGED <<exceptBase, consoles, activeConsole>>

InitBaseAny ==
    /\ platform \in Platforms
    /\ options = [i \in Instances |->
                     IF i = defaultConsole THEN DefaultOptions ELSE ConstructorDefaults]
    /\ InitInstances
    /\ InitRouter
    /\ nops = 0
    /\ lastCall = NoCall
    /\ targetStream = [isTTY |-> TRUE, hasOn |-> TRUE, hasOff |-> TRUE]
    /\ InitStreams
    /\ InitFormat
    /\ InitKinds
    /\ InitGraph
    /\ InitBase

NextBase ==
    \/ \E i \in Consoles \ {"D"}, given \in GivenBases, rec, real \in BOOLEAN :
          Construct(i, given, rec, real)
    \/ \E i \in Consoles \ {"D"} : Activate(i)
    \/ Deactivate
    \/ \E i \in Consoles : LogOn(i)

SpecBase == InitBaseAny /\ [][NextBase]_vars

\* ---------------------------------------------------------------------------
\* SpecBase: properties
\* ---------------------------------------------------------------------------

\* Instance i was constructed without the base_console option.
Defaulted(i) == consoles[i].built /\ consoles[i].given = Absent

Has(log, token) == \E k \in 1..Len(log) : log[k] = token

\* The tokens of the calls made on instance i.
LoggedOn(i) == {passed[k].token : k \in {n \in 1..Len(passed) : passed[n].by = i}}

\* C31 as stated: an instance constructed without the option while an
\* instance is active has that instance's base console as its base, and what
\* it passes through is in neither buffer of that instance; constructed with
\* no instance active, what it passes through reaches the real console (on
\* node by way of defaultConsole, which keeps nothing).
C31_BaseOfActiveInstance ==
    \A i \in Consoles :
        Defaulted(i) =>
            LET a == consoles[i].activeThen
            IN  IF a = None
                THEN consoles[i].realConsoleOutput =>
                        \A t \in LoggedOn(i) : Has(delivered["real"], t)
                ELSE /\ consoles[i].base = consoles[a].base
                     /\ consoles[i].realConsoleOutput =>
                           \A t \in LoggedOn(i) :
                               /\ ~Has(captured[a].plain, t)
                               /\ ~Has(captured[a].html, t)

\* C31 amended: on node an instance constructed without the option has the
\* active instance itself as its base, and defaultConsole when none is active;
\* in the browser it has the real console. What it passes through is handed to
\* that base: an instance that records gets it in outputs (and in outputsHtml
\* when it arrives as a method call, the passing instance not recording), and
\* with no instance active it reaches the real console.
C31_BaseIsActiveInstance ==
    \A i \in Consoles :
        Defaulted(i) =>
            LET a == consoles[i].activeThen
                b == consoles[i].base
            IN  /\ b = IF platform = "browser" THEN "real"
                       ELSE IF a = None THEN "D" ELSE a
                /\ consoles[i].realConsoleOutput =>
                      \A t \in LoggedOn(i) :
                          /\ b \in Outside => Has(delivered[b], t)
                          /\ b \in Consoles =>
                                /\ Has(captured[b].plain, t) <=> consoles[b].recordOutput
                                /\ Has(captured[b].html, t) <=>
                                      (consoles[b].recordOutput /\ ~consoles[i].recordOutput)
                          /\ a = None => Has(delivered["real"], t)

\* On node, N was constructed without the option while the recording instance
\* A was active; N passed a call through and A's outputs hold it.
C31_Witness ==
    /\ platform = "node"
    /\ Defaulted("N")
    /\ consoles["N"].activeThen = "A"
    /\ consoles["N"].realConsoleOutput
    /\ consoles["A"].recordOutput
    /\ \E t \in LoggedOn("N") : Has(captured["A"].plain, t)

\* ---------------------------------------------------------------------------
\* the default instance: calls made on it and calls routed to it
\* ---------------------------------------------------------------------------

\* Calls on defaultConsole itself, console.log through the global console with
\* no instance active, and defaultConsole.hookAsyncContext(fn) from the top level.
NextDefault ==
    \/ \E m \in {"log", "error"} : CallMethod(defaultConsole, m, <<TextArg(1)>>, TRUE)
    \/ \E s1 \in BOOLEAN :
          CallFreshLine(defaultConsole, "id1", <<TextArg(1)>>, s1, TRUE)
    \/ CallClear(defaultConsole)
    \/ \E side \in Sides, k \in 0..MaxOps, ls \in BOOLEAN :
          Acknowledge(defaultConsole, side, k, ls)
    \/ Log(0)
    \/ Start(0, 1, defaultConsole, "return")
    \/ Yield(0)
    \/ ResumeMain
    \/ Finish(1)
    \/ Observe(1)

SpecDefault == Init /\ [][NextDefault]_vars

\* C33: defaultConsole has recordOutput disabled and realConsoleOutput
\* enabled, and whatever logging calls, freshLine calls, clear calls and
\* run-scoped calls reach it, its outputs and outputsHtml stay empty.
C33_DefaultKeepsNothing ==
    /\ ~options[defaultConsole].recordOutput
    /\ options[defaultConsole].realConsoleOutput
    /\ outputs[defaultConsole] = <<>>
    /\ outputsHtml[defaultConsole] = <<>>

\* defaultConsole repeated a fresh line (the erase sequence went to the
\* target stream), was cleared, and a run-scoped call on it has logged: the
\* base console got the calls, the buffers hold nothing.
C33_Witness ==
    /\ \E k \in 1..Len(sinkWrites) : sinkWrites[k].chunk = EraseChunk
    /\ \E k \in 1..Len(baseCalls) : baseCalls[k].m = "clear"
    /\ pc[1] = "observed"
    /\ Holds(baseCalls, TokenArg(1))
    /\ outputs[defaultConsole] = <<>>
    /\ outputsHtml[defaultConsole] = <<>>

\* ---------------------------------------------------------------------------
\* SpecConsole: the two buffers side by side
\* ---------------------------------------------------------------------------

\* The argument lists of the entries of a buffer, in buffer order; the erase
\* sequence of freshLine is an entry of its own.
Entries(buf) == [k \in 1..Len(buf) |-> buf[k].a]

\* C34: on a recording instance outputs and outputsHtml hold records of the
\* same calls in the same order: whatever adds an entry to outputs, a call or
\* the control write of freshLine, adds one entry to outputsHtml, and the
\* reverse.
C34_BuffersSideBySide ==
    \A i \in Tested :
        options[i].recordOutput => Entries(outputs[i]) = Entries(outputsHtml[i])

====
